---- MODULE Spec2Model ----
(***************************************************************************)
(* A model of tools/sie4_parser.py: the SIE4 parser's line loop            *)
(* (SIE4Parser._parse_lines), its tokenizer, its number and date helpers   *)
(* and the account-hierarchy pass (Spec), two interleaved calls of the     *)
(* line loop on one parser (SpecCalls), and parse_bytes with its choice of *)
(* an encoding (SpecBytes).  Python strings are TLA+ strings, read         *)
(* character by character with SubSeq; Optional[X] values are sequences of *)
(* length 0 (None) or 1.                                                   *)
(***************************************************************************)
EXTENDS Integers, Sequences, FiniteSets, TLC

\* ------------------------------------------------------------------------
\* Bounds of the model
\* ------------------------------------------------------------------------

\* The longest voucher file, in lines, that the line loop is run on.
MaxLines == 4

\* The longest input of lines of any kind, in lines.
MaxMixedLines == 2

\* The longest byte string that parse_bytes is run on.
MaxBytes == 2

\* The longest list of encoding candidates that parse_bytes is given.
MaxCandidates == 2

\* ------------------------------------------------------------------------
\* Python values
\* ------------------------------------------------------------------------

None == <<>>

Some(x) == <<x>>

Ch(s, i) == SubSeq(s, i, i)

Digits == "0123456789"

UpperLetters == "ABCDEFGHIJKLMNOPQRSTUVWXYZ"

LowerLetters == "abcdefghijklmnopqrstuvwxyz"

\* 0 when c does not occur in alphabet, else its 1-based position
IndexIn(alphabet, c) ==
    IF \E k \in 1..Len(alphabet) : Ch(alphabet, k) = c
    THEN CHOOSE k \in 1..Len(alphabet) : Ch(alphabet, k) = c
    ELSE 0

IsDigit(c) == IndexIn(Digits, c) # 0

DigitVal(c) == IndexIn(Digits, c) - 1

IsSpace(c) == c \in {" ", "\t"}

\* the class [A-Z0-9] under re.IGNORECASE
IsKeywordChar(c) ==
    IndexIn(UpperLetters, c) # 0 \/ IndexIn(LowerLetters, c) # 0 \/ IsDigit(c)

UpperCh(c) ==
    IF IndexIn(LowerLetters, c) # 0 THEN Ch(UpperLetters, IndexIn(LowerLetters, c)) ELSE c

RECURSIVE Upper(_)
Upper(s) == IF s = "" THEN "" ELSE UpperCh(Ch(s, 1)) \o Upper(SubSeq(s, 2, Len(s)))

\* str.isdigit()
IsAllDigits(s) == Len(s) >= 1 /\ \A k \in 1..Len(s) : IsDigit(Ch(s, k))

StartsWith(s, p) == Len(s) >= Len(p) /\ SubSeq(s, 1, Len(p)) = p

RECURSIVE LStrip(_)
LStrip(s) == IF s # "" /\ IsSpace(Ch(s, 1)) THEN LStrip(SubSeq(s, 2, Len(s))) ELSE s

RECURSIVE RStrip(_)
RStrip(s) ==
    IF s # "" /\ IsSpace(Ch(s, Len(s))) THEN RStrip(SubSeq(s, 1, Len(s) - 1)) ELSE s

\* str.strip()
Strip(s) == RStrip(LStrip(s))

\* str.replace(a, b) for one-character a and b
RECURSIVE Replace(_, _, _)
Replace(s, a, b) ==
    IF s = "" THEN ""
    ELSE (IF Ch(s, 1) = a THEN b ELSE Ch(s, 1)) \o Replace(SubSeq(s, 2, Len(s)), a, b)

\* " ".join(seq)
RECURSIVE Join(_)
Join(seq) ==
    IF seq = <<>> THEN ""
    ELSE IF Len(seq) = 1 THEN seq[1]
    ELSE seq[1] \o " " \o Join(Tail(seq))

\* ------------------------------------------------------------------------
\* Helpers of SIE4Parser
\* ------------------------------------------------------------------------

\* the end (one past) of the run of characters satisfying the class, from i
RECURSIVE DigitRunEnd(_, _)
DigitRunEnd(s, i) ==
    IF i <= Len(s) /\ IsDigit(Ch(s, i)) THEN DigitRunEnd(s, i + 1) ELSE i

\* _num_re = ^[+-]?\d+(?:[.,]\d+)?$
num_re_match(t) ==
    LET a == IF t # "" /\ Ch(t, 1) \in {"+", "-"} THEN 2 ELSE 1
        b == DigitRunEnd(t, a)
    IN  /\ b > a
        /\ \/ b = Len(t) + 1
           \/ /\ b <= Len(t)
              /\ Ch(t, b) \in {".", ","}
              /\ DigitRunEnd(t, b + 1) > b + 1
              /\ DigitRunEnd(t, b + 1) = Len(t) + 1

_is_quoted(s) ==
    Len(s) >= 2 /\ Ch(s, 1) \in {"\"", "'"} /\ Ch(s, Len(s)) = Ch(s, 1)

_strip_quotes(s) ==
    IF Len(s) >= 2 /\ (  (Ch(s, 1) = "\"" /\ Ch(s, Len(s)) = "\"")
                      \/ (Ch(s, 1) = "'" /\ Ch(s, Len(s)) = "'"))
    THEN SubSeq(s, 2, Len(s) - 1)
    ELSE s

\* the first position >= i of rest that is not whitespace (Len(rest)+1 if none)
RECURSIVE SkipSpace(_, _)
SkipSpace(rest, i) ==
    IF i <= Len(rest) /\ IsSpace(Ch(rest, i)) THEN SkipSpace(rest, i + 1) ELSE i

\* RunEnd stopping at a quote character as well as at whitespace
RECURSIVE RunEnd_StopsAtQuote(_, _)
RunEnd_StopsAtQuote(rest, i) ==
    IF i <= Len(rest) /\ ~IsSpace(Ch(rest, i)) /\ Ch(rest, i) \notin {"'", "\""}
    THEN RunEnd_StopsAtQuote(rest, i + 1)
    ELSE i

\* the first position >= i of rest that is whitespace (Len(rest)+1 if none)
RECURSIVE RunEnd(_, _)
RunEnd(rest, i) ==
    IF i <= Len(rest) /\ ~IsSpace(Ch(rest, i)) THEN RunEnd(rest, i + 1) ELSE i

\* the first position >= i of rest holding the quote q (Len(rest)+1 if none)
RECURSIVE QuoteEnd(_, _, _)
QuoteEnd(rest, i, q) ==
    IF i <= Len(rest) /\ Ch(rest, i) # q THEN QuoteEnd(rest, i + 1, q) ELSE i

\* the while loop of _split_command: tokens of rest from position i on
RECURSIVE Tokenize(_, _, _)
Tokenize(rest, i, args) ==
    LET j == SkipSpace(rest, i)
    IN  IF j > Len(rest) THEN args
        ELSE IF Ch(rest, j) \in {"'", "\""}
        THEN LET q == Ch(rest, j)
                 k == QuoteEnd(rest, j + 1, q)
             IN  Tokenize(rest, k + 1, Append(args, q \o SubSeq(rest, j + 1, k - 1) \o q))
        ELSE LET k == RunEnd(rest, j)
             IN  Tokenize(rest, k, Append(args, SubSeq(rest, j, k - 1)))

\* the end (one past) of the keyword characters ([A-Z0-9], ignoring case) from i
RECURSIVE KeywordEnd(_, _)
KeywordEnd(line, i) ==
    IF i <= Len(line) /\ IsKeywordChar(Ch(line, i)) THEN KeywordEnd(line, i + 1) ELSE i

\* _split_command: ^(#[A-Z0-9]+)\s*(.*)$ then the quote-aware tokenizer
_split_command(line) ==
    LET e == KeywordEnd(line, 2)
    IN  IF ~(StartsWith(line, "#") /\ e > 2)
        THEN [cmd |-> line, args |-> <<>>]
        ELSE [cmd  |-> Upper(SubSeq(line, 1, e - 1)),
              args |-> Tokenize(SubSeq(line, SkipSpace(line, e), Len(line)), 1, <<>>)]

\* int() of a run of decimal digits
RECURSIVE IntOfDigits(_)
IntOfDigits(s) ==
    IF s = "" THEN 0
    ELSE 10 * IntOfDigits(SubSeq(s, 1, Len(s) - 1)) + DigitVal(Ch(s, Len(s)))

RECURSIVE Pow10(_)
Pow10(n) == IF n = 0 THEN 1 ELSE 10 * Pow10(n - 1)

\* a float as the decimal sig / 10^exp in lowest form (no trailing zero digit)
RECURSIVE Normalize(_, _)
Normalize(sig, exp) ==
    IF exp > 0 /\ sig % 10 = 0 THEN Normalize(sig \div 10, exp - 1)
    ELSE [sig |-> sig, exp |-> exp]

\* float(s) with the sign of s lost
float_IgnoresSign(s) ==
    LET a    == IF Ch(s, 1) \in {"+", "-"} THEN 2 ELSE 1
        b    == DigitRunEnd(s, a)
        frac == SubSeq(s, b + 1, Len(s))
    IN  Normalize(IntOfDigits(SubSeq(s, a, b - 1) \o frac), Len(frac))

\* float(s) for s of the form [+-]?\d+(\.\d+)?
float(s) ==
    LET a    == IF Ch(s, 1) \in {"+", "-"} THEN 2 ELSE 1
        b    == DigitRunEnd(s, a)
        frac == SubSeq(s, b + 1, Len(s))
        mag  == IntOfDigits(SubSeq(s, a, b - 1) \o frac)
        v    == Normalize(mag, Len(frac))
    IN  [sig |-> IF Ch(s, 1) = "-" THEN 0 - v.sig ELSE v.sig, exp |-> v.exp]

\* str() of a natural number
RECURSIVE NatStr(_)
NatStr(n) == IF n < 10 THEN Ch(Digits, n + 1) ELSE NatStr(n \div 10) \o Ch(Digits, (n % 10) + 1)

\* n written with exactly w digits
RECURSIVE ZeroPad(_, _)
ZeroPad(s, w) == IF Len(s) >= w THEN s ELSE ZeroPad("0" \o s, w)

\* str(x) of a float x: sign, integer part, '.', fraction (at least one digit)
float_str(x) ==
    LET mag == IF x.sig < 0 THEN 0 - x.sig ELSE x.sig
        p   == Pow10(x.exp)
    IN  (IF x.sig < 0 THEN "-" ELSE "")
        \o NatStr(mag \div p) \o "."
        \o (IF x.exp = 0 THEN "0" ELSE ZeroPad(NatStr(mag % p), x.exp))

BracketNoise == {"{", "}", "{}"}

\* _first_number scanning from the first token whatever start_idx is
RECURSIVE _first_number_CountsKey(_, _)
_first_number_CountsKey(tokens, start_idx) ==
    IF tokens = <<>> THEN None
    ELSE LET tt == Strip(Head(tokens))
         IN  IF tt \notin BracketNoise /\ num_re_match(tt)
             THEN Some(float(Replace(tt, ",", ".")))
             ELSE _first_number_CountsKey(Tail(tokens), start_idx)

\* _first_number giving up at the first bracket-noise token
RECURSIVE _first_number_StopsAtNoise(_, _)
_first_number_StopsAtNoise(tokens, start_idx) ==
    IF start_idx >= Len(tokens) THEN None
    ELSE LET tt == Strip(tokens[start_idx + 1])
         IN  IF tt \in BracketNoise THEN None
             ELSE IF num_re_match(tt) THEN Some(float(Replace(tt, ",", ".")))
             ELSE _first_number_StopsAtNoise(tokens, start_idx + 1)

\* _first_number: the float of the first token from start_idx (0-based) on
\* that matches _num_re, None if there is none
RECURSIVE _first_number(_, _)
_first_number(tokens, start_idx) ==
    IF start_idx >= Len(tokens) THEN None
    ELSE LET tt == Strip(tokens[start_idx + 1])
         IN  IF tt \in BracketNoise THEN _first_number(tokens, start_idx + 1)
             ELSE IF num_re_match(tt) THEN Some(float(Replace(tt, ",", ".")))
             ELSE _first_number(tokens, start_idx + 1)

\* re.sub(r'[^0-9]', '', s)
RECURSIVE OnlyDigits(_)
OnlyDigits(s) ==
    IF s = "" THEN ""
    ELSE (IF IsDigit(Ch(s, 1)) THEN Ch(s, 1) ELSE "") \o OnlyDigits(SubSeq(s, 2, Len(s)))

\* the character of s at i, "" past its end
At(s, i) == IF i <= Len(s) THEN Ch(s, i) ELSE ""

\* %m of strptime, (1[0-2]|0[1-9]|[1-9]): the lengths its alternatives match
\* at position i of s, in the order the regex engine tries them
MonthLens(s, i) ==
       (IF At(s, i) = "1" /\ At(s, i + 1) \in {"0", "1", "2"} THEN <<2>> ELSE <<>>)
    \o (IF At(s, i) = "0" /\ IsDigit(At(s, i + 1)) /\ At(s, i + 1) # "0" THEN <<2>> ELSE <<>>)
    \o (IF IsDigit(At(s, i)) /\ At(s, i) # "0" THEN <<1>> ELSE <<>>)

\* %d of strptime, (3[0-1]|[1-2]\d|0[1-9]|[1-9]| [1-9]), likewise
DayLens(s, i) ==
       (IF At(s, i) = "3" /\ At(s, i + 1) \in {"0", "1"} THEN <<2>> ELSE <<>>)
    \o (IF At(s, i) \in {"1", "2"} /\ IsDigit(At(s, i + 1)) THEN <<2>> ELSE <<>>)
    \o (IF At(s, i) = "0" /\ IsDigit(At(s, i + 1)) /\ At(s, i + 1) # "0" THEN <<2>> ELSE <<>>)
    \o (IF IsDigit(At(s, i)) /\ At(s, i) # "0" THEN <<1>> ELSE <<>>)
    \o (IF At(s, i) = " " /\ IsDigit(At(s, i + 1)) /\ At(s, i + 1) # "0" THEN <<2>> ELSE <<>>)

IsLeap(y) == (y % 4 = 0 /\ y % 100 # 0) \/ y % 400 = 0

DaysInMonth(y, m) ==
    IF m = 2 THEN (IF IsLeap(y) THEN 29 ELSE 28)
    ELSE IF m \in {4, 6, 9, 11} THEN 30 ELSE 31

\* datetime.strptime(s, "%Y%m%d").date(): the regex
\* (?P<Y>\d\d\d\d)(?P<m>...)(?P<d>...) is matched at the start of s, taking the
\* first alternatives that let the whole pattern match; text left over, no
\* match, year 0 and a day past the month's end raise ValueError (None here)
strptime_Ymd(s) ==
    LET yearOk == Len(s) >= 4 /\ IsAllDigits(SubSeq(s, 1, 4))
        ms     == SelectSeq(MonthLens(s, 5), LAMBDA ml : DayLens(s, 5 + ml) # <<>>)
    IN  IF ~yearOk \/ ms = <<>> THEN None
        ELSE LET ml == Head(ms)
                 dl == Head(DayLens(s, 5 + ml))
                 y  == IntOfDigits(SubSeq(s, 1, 4))
                 m  == IntOfDigits(SubSeq(s, 5, 4 + ml))
                 d  == IntOfDigits(SubSeq(s, 5 + ml, 4 + ml + dl))
             IN  IF 4 + ml + dl # Len(s) THEN None
                 ELSE IF y < 1 \/ d > DaysInMonth(y, m) THEN None
                 ELSE Some([year |-> y, month |-> m, day |-> d])

\* _parse_date: None stands for the ValueError that strptime raises
_parse_date(s) == strptime_Ymd(OnlyDigits(s))

\* whether int(s) succeeds: optional sign, digits, single underscores between
int_ok(s) ==
    LET t == Strip(s)
        a == IF t # "" /\ Ch(t, 1) \in {"+", "-"} THEN 2 ELSE 1
    IN  /\ a <= Len(t)
        /\ IsDigit(Ch(t, a)) /\ IsDigit(Ch(t, Len(t)))
        /\ \A k \in a..Len(t) :
              \/ IsDigit(Ch(t, k))
              \/ Ch(t, k) = "_" /\ IsDigit(Ch(t, k - 1)) /\ IsDigit(At(t, k + 1))

\* int(s) where int_ok(s)
int(s) ==
    LET t == Strip(s)
        n == IntOfDigits(OnlyDigits(t))
    IN  IF Ch(t, 1) = "-" THEN 0 - n ELSE n

\* ------------------------------------------------------------------------
\* Domain model
\* ------------------------------------------------------------------------

\* Account(number=n); parent is the parent's key, children the children's keys
Account(n) ==
    [number |-> n, name |-> "", parent |-> None, children |-> <<>>, sru |-> None,
     opening_balance |-> None, closing_balance |-> None]

\* Transaction(account, amount, dim, text)
Transaction(account, amount, dim, text) ==
    [account |-> account, amount |-> amount, dim |-> dim, text |-> text]

\* Voucher(series, number, date, text, reg_date); oid is the object's identity
\* (the number of the line that constructed it)
Voucher(series, number, date, text, reg_date, oid) ==
    [series |-> series, number |-> number, date |-> date, text |-> text,
     reg_date |-> reg_date, transactions |-> <<>>, oid |-> oid]

RAR(idx, start, end) == [idx |-> idx, start |-> start, end |-> end]

\* Company(); accounts is the dict as the sequence of its values in insertion order
Company ==
    [orgnr |-> None, name |-> None, program |-> None, sietyp |-> None,
     format |-> None, generated |-> None, rars |-> <<>>, accounts |-> <<>>,
     vouchers |-> <<>>, source_encoding |-> None]

\* the position of key k in the dict, 0 if absent
KeyIndex(accounts, k) ==
    IF \E j \in 1..Len(accounts) : accounts[j].number = k
    THEN CHOOSE j \in 1..Len(accounts) : accounts[j].number = k
    ELSE 0

HasKey(accounts, k) == KeyIndex(accounts, k) # 0

\* company.accounts.get(acc_no) or Account(number=acc_no)
GetOrNew(accounts, k) ==
    IF HasKey(accounts, k) THEN accounts[KeyIndex(accounts, k)] ELSE Account(k)

\* company.accounts[acc_no] = acc: an existing key keeps its place
SetItem(accounts, acc) ==
    IF HasKey(accounts, acc.number)
    THEN [accounts EXCEPT ![KeyIndex(accounts, acc.number)] = acc]
    ELSE Append(accounts, acc)

\* Prefixes trying the shortest prefix first
Prefixes_ShortestFirst(num) ==
    IF Len(num) >= 4 THEN <<SubSeq(num, 1, 1), SubSeq(num, 1, 2), SubSeq(num, 1, 3)>>
    ELSE IF Len(num) = 3 THEN <<SubSeq(num, 1, 1), SubSeq(num, 1, 2)>>
    ELSE <<SubSeq(num, 1, 1)>>

\* the candidate parent prefixes of an account key, longest first
Prefixes(num) ==
    IF Len(num) >= 4 THEN <<SubSeq(num, 1, 3), SubSeq(num, 1, 2), SubSeq(num, 1, 1)>>
    ELSE IF Len(num) = 3 THEN <<SubSeq(num, 1, 2), SubSeq(num, 1, 1)>>
    ELSE <<SubSeq(num, 1, 1)>>

InSeq(x, seq) == \E j \in 1..Len(seq) : seq[j] = x

\* LinkAccount linking again an account that has its parent already
LinkAccount_Relinks(accounts, k) ==
    LET acc   == accounts[k]
        num   == acc.number
        found == SelectSeq(Prefixes(num), LAMBDA p : HasKey(accounts, p) /\ p # num)
    IN  IF ~IsAllDigits(num) \/ Len(num) = 1 THEN accounts
        ELSE IF found = <<>> THEN accounts
        ELSE LET p  == Head(found)
                 pi == KeyIndex(accounts, p)
             IN  [accounts EXCEPT ![k].parent = Some(p), ![pi].children = Append(@, num)]

\* LinkAccount setting the parent without entering the child in its list
LinkAccount_ForgetsChild(accounts, k) ==
    LET acc   == accounts[k]
        num   == acc.number
        found == SelectSeq(Prefixes(num), LAMBDA p : HasKey(accounts, p) /\ p # num)
    IN  IF ~IsAllDigits(num) \/ Len(num) = 1 THEN accounts
        ELSE IF found = <<>> \/ acc.parent # None THEN accounts
        ELSE [accounts EXCEPT ![k].parent = Some(Head(found))]

\* LinkAccount without the test that the key is all digits
LinkAccount_AnyKey(accounts, k) ==
    LET acc   == accounts[k]
        num   == acc.number
        found == SelectSeq(Prefixes(num), LAMBDA p : HasKey(accounts, p) /\ p # num)
    IN  IF Len(num) <= 1 THEN accounts
        ELSE IF found = <<>> \/ acc.parent # None THEN accounts
        ELSE LET p  == Head(found)
                 pi == KeyIndex(accounts, p)
                 a1 == [accounts EXCEPT ![k].parent = Some(p)]
             IN  IF InSeq(num, a1[pi].children) THEN a1
                 ELSE [a1 EXCEPT ![pi].children = Append(@, num)]

\* one iteration of the first loop of _build_account_hierarchy, on the k-th item
LinkAccount(accounts, k) ==
    LET acc   == accounts[k]
        num   == acc.number
        found == SelectSeq(Prefixes(num), LAMBDA p : HasKey(accounts, p) /\ p # num)
    IN  IF ~IsAllDigits(num) \/ Len(num) = 1 THEN accounts
        ELSE IF found = <<>> \/ acc.parent # None THEN accounts
        ELSE LET p  == Head(found)
                 pi == KeyIndex(accounts, p)
                 a1 == [accounts EXCEPT ![k].parent = Some(p)]
             IN  IF InSeq(num, a1[pi].children) THEN a1
                 ELSE [a1 EXCEPT ![pi].children = Append(@, num)]

RECURSIVE LinkFrom(_, _)
LinkFrom(accounts, k) ==
    IF k > Len(accounts) THEN accounts ELSE LinkFrom(LinkAccount(accounts, k), k + 1)

\* the second loop: one-digit accounts have no parent
ClearTopLevel(accounts) ==
    [j \in 1..Len(accounts) |->
        IF IsAllDigits(accounts[j].number) /\ Len(accounts[j].number) = 1
        THEN [accounts[j] EXCEPT !.parent = None]
        ELSE accounts[j]]

_build_account_hierarchy(accounts) == ClearTopLevel(LinkFrom(accounts, 1))

\* the rows that to_pandas_transactions builds for one voucher
VoucherRows(v) ==
    [i \in 1..Len(v.transactions) |->
        [series |-> v.series, number |-> v.number, voucher_date |-> v.date,
         voucher_text |-> v.text, tx_index |-> i,
         account |-> v.transactions[i].account, amount |-> v.transactions[i].amount,
         dim |-> v.transactions[i].dim, text |-> v.transactions[i].text]]

\* the rows of the vouchers from the k-th on, in the order they are appended
RECURSIVE RowsFrom(_, _)
RowsFrom(vouchers, k) ==
    IF k > Len(vouchers) THEN <<>>
    ELSE VoucherRows(vouchers[k]) \o RowsFrom(vouchers, k + 1)

\* Company.to_pandas_transactions: the rows of the frame, in order
to_pandas_transactions(c) == RowsFrom(c.vouchers, 1)

\* ------------------------------------------------------------------------
\* The parser as a state machine: one step of the loop of _parse_lines per
\* action, the input line drawn from Lines
\* ------------------------------------------------------------------------

VARIABLES
    infer_account_hierarchy,  \* SIE4Parser.infer_account_hierarchy
    input,                    \* the class of input being parsed: its lines and its length
    company,                  \* the Company under construction
    current_voucher,          \* the pending voucher, None or Some(voucher)
    raw,                      \* the line consumed last (the loop variable)
    lineno,                   \* how many lines have been consumed
    pc,                       \* "loop", "returned" or "raised"
    exc,                      \* the exception raised, "" if none
    other,                    \* the locals of a second, suspended call of _parse_lines
    decoding                  \* the state of a parse_bytes call, None in a parse of lines

vars ==
    <<infer_account_hierarchy, input, company, current_voucher, raw, lineno, pc, exc,
      other, decoding>>

\* the lines an input is made of
NoiseLines == {"", "  ", ";; note", "junk }"}

BraceLines == {"{", " }"}

VerLines ==
    {"#VER A 1 20240110 \"Text\" 20240110", "#ver B 2 2024011",
     "#VER A 1 202401100", "#VER A 7", "#VER C 3 20240111 'x' 2024"}

TransLines ==
    {"#TRANS 1930 -1000.00 \"t\"", "#TRANS 3001 {} 1000,00 \"x y\" 7 K1 'z'",
     "#TRANS 3001 K1 \"n\" {}", "#TRANS"}

BalanceLines ==
    {"#IB 1930 {} 10000,00", "#IB 19 x {}", "#IB", "#UB 1930 9000.00 {}", "#UB 1931", "#UB"}

AccountLines ==
    {"#KONTO 1930 \"Bank\"", "#KONTO 19", "#KONTO", "#SRU 1930 7281", "#SRU 1930"}

CompanyLines ==
    {"#FLAGGA 0", "#PROGRAM \"X\"  1.0", "#FORMAT PC8", "#GEN 2024-01-01", "#GEN",
     "#SIETYP 4", "#ORGNR 556000-0000", "#FNAMN \"Demo AB\"",
     "#RAR 0 20240101 20241231", "#RAR x 20240101 20241231", "#RAR 0 20240101"}

OtherLines == {"#OBJEKT 1 \"a\"", "#"}

MixedFileLines ==
    NoiseLines \cup BraceLines \cup VerLines \cup TransLines \cup BalanceLines
    \cup AccountLines \cup CompanyLines \cup OtherLines

\* the lines of the inputs that hold vouchers only
VoucherFileLines ==
    {"{", " }", "#VER A 1 20240110 \"Text\" 20240110", "#ver B 2 2024011", "#VER A 7",
     "#TRANS 1930 -1000.00 \"t\"", "#TRANS 3001 {} 1000,00 \"x y\" 7 K1 'z'",
     "#TRANS 3001 K1 \"n\" {}", "#TRANS"}

\* two vouchers, of two transactions and of one
OrderExample ==
    <<"#VER A 1 20240110 \"Text\" 20240110", "#TRANS 1930 -1000.00 \"t\"",
      "#TRANS 3001 {} 1000,00 \"x y\" 7 K1 'z'", " }",
      "#VER B 2 20240111", "#TRANS 1930 -1000.00 \"t\"", " }">>

\* the voucher of the parser's test: a header, its block of one transaction
VoucherExample ==
    <<"#VER A 1 20240110 \"Text\" 20240110", "{", "#TRANS 1930 -1000.00 \"t\"", "}">>

\* the lines of the inputs that declare accounts only
HierarchyFileLines ==
    {"#KONTO 1", "#KONTO 19", "#KONTO 193", "#KONTO 1930", "#KONTO 1931", "#KONTO 19A"}

\* the accounts 1, 19, 1930 and 1931, declared in that order
HierarchyExample == <<"#KONTO 1", "#KONTO 19", "#KONTO 1930", "#KONTO 1931">>

\* the lines of the ledger and account commands
LedgerLines == CompanyLines \cup AccountLines \cup BalanceLines

\* a header and a transaction: the start of the inputs in which the
\* commands that follow meet a pending voucher that holds a transaction
PendingPrefix ==
    <<"#VER A 1 20240110 \"Text\" 20240110", "#TRANS 1930 -1000.00 \"t\"">>

\* the voucher example with blank, whitespace, comment and text lines added
NoiseExample ==
    <<"", "#VER A 1 20240110 \"Text\" 20240110", ";; note", "{", "  ",
      "#TRANS 1930 -1000.00 \"t\"", "junk }", "}", "">>

\* the voucher example without its '{', and with '{' lines added
NoBraceExample ==
    <<"#VER A 1 20240110 \"Text\" 20240110", "#TRANS 1930 -1000.00 \"t\"", "}">>

ExtraBracesExample ==
    <<"{", "#VER A 1 20240110 \"Text\" 20240110", "{", "{",
      "#TRANS 1930 -1000.00 \"t\"", "{", "}">>

\* a voucher whose transactions have no quoted token, two quoted tokens ahead
\* of the amount, a quote inside an unquoted run and an empty quoted token,
\* and a quoted run that the line ends before closing
TokenExample ==
    <<"#VER A 1 20240110", "#TRANS 1930 -1000.00", "#TRANS 3001 'a b' \"c\" 5,00 K1",
      "#TRANS 3001 2 ab\"cd ef\" \"\"", "#TRANS 3001 3 \"open end", "}">>

Examples ==
    {VoucherExample, OrderExample, HierarchyExample, NoBraceExample, ExtraBracesExample,
     NoiseExample, TokenExample}

\* the line endings of a text file: LF, CRLF, CR
LineEndings == {"\n", "\r\n", "\r"}

\* the text whose lines are seq, with sep between one line and the next
RECURSIVE JoinWith(_, _)
JoinWith(seq, sep) ==
    IF seq = <<>> THEN ""
    ELSE IF Len(seq) = 1 THEN seq[1]
    ELSE seq[1] \o sep \o JoinWith(Tail(seq), sep)

\* the texts that parse_text is given: each example in each line ending
ExampleTexts == {JoinWith(e, sep) : e \in Examples, sep \in LineEndings}

\* text.replace("\r\n", "\n"), of the characters lo..hi of s: a CR that
\* an LF follows is dropped (the text is halved to keep the nesting shallow)
RECURSIVE ReplaceCRLF(_, _, _)
ReplaceCRLF(s, lo, hi) ==
    IF lo > hi THEN ""
    ELSE IF lo = hi
    THEN (IF Ch(s, lo) = "\r" /\ lo < Len(s) /\ Ch(s, lo + 1) = "\n" THEN "" ELSE Ch(s, lo))
    ELSE ReplaceCRLF(s, lo, (lo + hi) \div 2) \o ReplaceCRLF(s, (lo + hi) \div 2 + 1, hi)

\* s.replace("\r", "\n"), of the characters lo..hi of s
RECURSIVE ReplaceCR(_, _, _)
ReplaceCR(s, lo, hi) ==
    IF lo > hi THEN ""
    ELSE IF lo = hi THEN (IF Ch(s, lo) = "\r" THEN "\n" ELSE Ch(s, lo))
    ELSE ReplaceCR(s, lo, (lo + hi) \div 2) \o ReplaceCR(s, (lo + hi) \div 2 + 1, hi)

\* s.split("\n"): the pieces between one LF and the next
SplitLF(s) ==
    LET lf == SelectSeq([i \in 1..Len(s) |-> i], LAMBDA i : Ch(s, i) = "\n")
    IN  [k \in 1..(Len(lf) + 1) |->
            SubSeq(s, IF k = 1 THEN 1 ELSE lf[k - 1] + 1,
                      IF k <= Len(lf) THEN lf[k] - 1 ELSE Len(s))]

\* _normalize_lines splitting at LF and CRLF only
_normalize_lines_LFOnly(text) == SplitLF(ReplaceCRLF(text, 1, Len(text)))

_normalize_lines(text) ==
    LET lf == ReplaceCRLF(text, 1, Len(text))
    IN  SplitLF(ReplaceCR(lf, 1, Len(lf)))

\* the line sequences of the example texts
ExampleScripts == {_normalize_lines(t) : t \in ExampleTexts}

Range(seq) == {seq[k] : k \in 1..Len(seq)}

Lines ==
    MixedFileLines \cup VoucherFileLines \cup HierarchyFileLines
    \cup UNION {Range(e) : e \in Examples} \cup UNION {Range(e) : e \in ExampleScripts}

\* the inputs of _parse_lines: any file of up to maxlen lines that starts
\* with the lines of script and goes on with lines drawn from lines, or
\* (fixed) the file whose lines are script, the lines of an example text
Inputs ==
    {[fixed |-> FALSE, lines |-> MixedFileLines, maxlen |-> MaxMixedLines, script |-> <<>>],
     [fixed |-> FALSE, lines |-> VoucherFileLines, maxlen |-> MaxLines, script |-> <<>>],
     [fixed |-> FALSE, lines |-> HierarchyFileLines, maxlen |-> MaxLines, script |-> <<>>],
     [fixed |-> FALSE, lines |-> LedgerLines \cup Range(PendingPrefix),
      maxlen |-> Len(PendingPrefix) + MaxMixedLines - 1, script |-> PendingPrefix]}
    \cup {[fixed |-> TRUE, lines |-> Range(e), maxlen |-> Len(e), script |-> e] :
              e \in ExampleScripts}

\* line = raw.strip() and cmd, args = self._split_command(line), per input line
Stripped == [l \in Lines |-> Strip(l)]

SplitLines == [l \in Lines |-> _split_command(Stripped[l])]

Cmd(l) == SplitLines[l].cmd

Args(l) == SplitLines[l].args

HandledCommands ==
    {"#FLAGGA", "#PROGRAM", "#FORMAT", "#GEN", "#SIETYP", "#ORGNR", "#FNAMN", "#RAR",
     "#KONTO", "#SRU", "#IB", "#UB", "#VER", "#TRANS"}

\* the branch of the loop body that line l takes: the tests of the loop in
\* their order, then the command that is dispatched on
BranchOf(l) ==
    LET line == Stripped[l]
    IN  IF line = "" \/ StartsWith(line, ";;") THEN "skip"
        ELSE IF line = "{" THEN "open"
        ELSE IF line = "}" THEN "close"
        ELSE IF ~StartsWith(line, "#") THEN "text"
        ELSE IF Cmd(l) \in HandledCommands THEN Cmd(l)
        ELSE "else"

Branch == [l \in Lines |-> BranchOf(l)]

Init ==
    /\ infer_account_hierarchy \in BOOLEAN
    /\ input \in Inputs
    /\ company = Company
    /\ current_voucher = None
    /\ raw = ""
    /\ lineno = 0
    /\ pc = "loop"
    /\ exc = ""
    /\ other = None
    /\ decoding = None

\* for raw in lines: the next line is l
Consume(l) ==
    /\ pc = "loop"
    /\ lineno < input.maxlen
    /\ lineno < Len(input.script) => l = input.script[lineno + 1]
    /\ raw' = l
    /\ lineno' = lineno + 1
    /\ UNCHANGED <<infer_account_hierarchy, input, other, decoding>>

\* an exception leaves _parse_lines: no Company is returned
Raise(e) ==
    /\ pc' = "raised"
    /\ exc' = e
    /\ UNCHANGED <<company, current_voucher>>

\* the handler of command c is entered with line l
Dispatch(l, c) == Consume(l) /\ Branch[l] = c

\* blank line or ';;' comment
SkipLine ==
    \E l \in input.lines :
        /\ Dispatch(l, "skip")
        /\ UNCHANGED <<company, current_voucher, pc, exc>>

\* OpenBrace starting the block of the pending voucher afresh
OpenBrace_StartsBlock ==
    \E l \in input.lines :
        /\ Dispatch(l, "open")
        /\ current_voucher' =
               IF current_voucher = None THEN None
               ELSE Some([current_voucher[1] EXCEPT !.transactions = <<>>])
        /\ UNCHANGED <<company, pc, exc>>

OpenBrace ==
    \E l \in input.lines :
        /\ Dispatch(l, "open")
        /\ UNCHANGED <<company, current_voucher, pc, exc>>

\* CloseBrace with the pending slot left set after the append
CloseBrace_KeepsPending ==
    \E l \in input.lines :
        /\ Dispatch(l, "close")
        /\ IF current_voucher # None
           THEN /\ company' = [company EXCEPT !.vouchers = Append(@, current_voucher[1])]
                /\ UNCHANGED current_voucher
           ELSE UNCHANGED <<company, current_voucher>>
        /\ UNCHANGED <<pc, exc>>

CloseBrace ==
    \E l \in input.lines :
        /\ Dispatch(l, "close")
        /\ IF current_voucher # None
           THEN /\ company' = [company EXCEPT !.vouchers = Append(@, current_voucher[1])]
                /\ current_voucher' = None
           ELSE UNCHANGED <<company, current_voucher>>
        /\ UNCHANGED <<pc, exc>>

\* a line that is no comment, no delimiter and does not start with '#'
NotCommand ==
    \E l \in input.lines :
        /\ Dispatch(l, "text")
        /\ UNCHANGED <<company, current_voucher, pc, exc>>

Flagga ==
    \E l \in input.lines :
        /\ Dispatch(l, "#FLAGGA")
        /\ UNCHANGED <<company, current_voucher, pc, exc>>

Program ==
    \E l \in input.lines :
        /\ Dispatch(l, "#PROGRAM")
        /\ company' = [company EXCEPT
               !.program = Some(Strip(Join(SelectSeq(Args(l), LAMBDA a : a # ""))))]
        /\ UNCHANGED <<current_voucher, pc, exc>>

Format ==
    \E l \in input.lines :
        /\ Dispatch(l, "#FORMAT")
        /\ company' = [company EXCEPT
               !.format = IF Args(l) # <<>> THEN Some(Args(l)[1]) ELSE None]
        /\ UNCHANGED <<current_voucher, pc, exc>>

Gen ==
    \E l \in input.lines :
        /\ Dispatch(l, "#GEN")
        /\ IF Args(l) # <<>> /\ _parse_date(Args(l)[1]) = None
           THEN Raise("ValueError")
           ELSE /\ company' = [company EXCEPT
                       !.generated = IF Args(l) # <<>> THEN _parse_date(Args(l)[1]) ELSE None]
                /\ UNCHANGED <<current_voucher, pc, exc>>

Sietyp ==
    \E l \in input.lines :
        /\ Dispatch(l, "#SIETYP")
        /\ company' = [company EXCEPT
               !.sietyp = IF Args(l) # <<>> THEN Some(Args(l)[1]) ELSE None]
        /\ UNCHANGED <<current_voucher, pc, exc>>

Orgnr ==
    \E l \in input.lines :
        /\ Dispatch(l, "#ORGNR")
        /\ company' = [company EXCEPT
               !.orgnr = IF Args(l) # <<>> THEN Some(Args(l)[1]) ELSE None]
        /\ UNCHANGED <<current_voucher, pc, exc>>

Fnamn ==
    \E l \in input.lines :
        /\ Dispatch(l, "#FNAMN")
        /\ company' = [company EXCEPT
               !.name = IF Args(l) # <<>> THEN Some(_strip_quotes(Args(l)[1])) ELSE None]
        /\ UNCHANGED <<current_voucher, pc, exc>>

Rar ==
    \E l \in input.lines :
        /\ Dispatch(l, "#RAR")
        /\ LET args == Args(l)
           IN  IF args = <<>> THEN Raise("IndexError")
               ELSE IF ~int_ok(args[1]) THEN Raise("ValueError")
               ELSE IF Len(args) < 2 THEN Raise("IndexError")
               ELSE IF _parse_date(args[2]) = None THEN Raise("ValueError")
               ELSE IF Len(args) < 3 THEN Raise("IndexError")
               ELSE IF _parse_date(args[3]) = None THEN Raise("ValueError")
               ELSE /\ company' = [company EXCEPT !.rars =
                           Append(@, RAR(int(args[1]), _parse_date(args[2])[1],
                                         _parse_date(args[3])[1]))]
                    /\ UNCHANGED <<current_voucher, pc, exc>>

\* Konto taking the account line as the end of the pending voucher
Konto_ClosesVoucher ==
    \E l \in input.lines :
        /\ Dispatch(l, "#KONTO")
        /\ LET args == Args(l)
           IN  IF args = <<>> THEN Raise("IndexError")
               ELSE LET acc_no   == args[1]
                        acc_name == IF Len(args) > 1 THEN _strip_quotes(args[2]) ELSE ""
                        acc      == GetOrNew(company.accounts, acc_no)
                        named    == [acc EXCEPT !.name = IF acc_name # "" THEN acc_name ELSE @]
                    IN  /\ company' = [company EXCEPT
                               !.accounts = SetItem(@, named),
                               !.vouchers = IF current_voucher = None THEN @
                                            ELSE Append(@, current_voucher[1])]
                        /\ current_voucher' = None
                        /\ UNCHANGED <<pc, exc>>

Konto ==
    \E l \in input.lines :
        /\ Dispatch(l, "#KONTO")
        /\ LET args == Args(l)
           IN  IF args = <<>> THEN Raise("IndexError")
               ELSE LET acc_no   == args[1]
                        acc_name == IF Len(args) > 1 THEN _strip_quotes(args[2]) ELSE ""
                        acc      == GetOrNew(company.accounts, acc_no)
                        named    == [acc EXCEPT !.name = IF acc_name # "" THEN acc_name ELSE @]
                    IN  /\ company' = [company EXCEPT !.accounts = SetItem(@, named)]
                        /\ UNCHANGED <<current_voucher, pc, exc>>

Sru ==
    \E l \in input.lines :
        /\ Dispatch(l, "#SRU")
        /\ LET args == Args(l)
           IN  IF Len(args) >= 2
               THEN LET acc == GetOrNew(company.accounts, args[1])
                    IN  company' = [company EXCEPT
                            !.accounts = SetItem(@, [acc EXCEPT !.sru = Some(args[2])])]
               ELSE UNCHANGED company
        /\ UNCHANGED <<current_voucher, pc, exc>>

\* SetBalance starting from a new account each time
SetBalance_FreshAccount(accounts, args, amount, opening) ==
    LET acc == Account(args[1])
    IN  SetItem(accounts,
                IF opening THEN [acc EXCEPT !.opening_balance = amount]
                ELSE [acc EXCEPT !.closing_balance = amount])

\* the body shared by #IB and #UB, which differ in the field they set
SetBalance(accounts, args, amount, opening) ==
    LET acc == GetOrNew(accounts, args[1])
    IN  SetItem(accounts,
                IF opening THEN [acc EXCEPT !.opening_balance = amount]
                ELSE [acc EXCEPT !.closing_balance = amount])

Ib ==
    \E l \in input.lines :
        /\ Dispatch(l, "#IB")
        /\ LET args   == Args(l)
               amount == _first_number(args, 1)
           IN  IF args = <<>> THEN Raise("IndexError")
               ELSE IF amount = None THEN UNCHANGED <<company, current_voucher, pc, exc>>
               ELSE /\ company' = [company EXCEPT
                           !.accounts = SetBalance(@, args, amount, TRUE)]
                    /\ UNCHANGED <<current_voucher, pc, exc>>

Ub ==
    \E l \in input.lines :
        /\ Dispatch(l, "#UB")
        /\ LET args   == Args(l)
               amount == _first_number(args, 1)
           IN  IF args = <<>> THEN Raise("IndexError")
               ELSE IF amount = None THEN UNCHANGED <<company, current_voucher, pc, exc>>
               ELSE /\ company' = [company EXCEPT
                           !.accounts = SetBalance(@, args, amount, FALSE)]
                    /\ UNCHANGED <<current_voucher, pc, exc>>

\* Ver appending the voucher it supersedes to the ledger
Ver_CommitsSuperseded ==
    \E l \in input.lines :
        /\ Dispatch(l, "#VER")
        /\ LET args == Args(l)
           IN  IF Len(args) < 3 THEN Raise("IndexError")
               ELSE IF _parse_date(args[3]) = None THEN Raise("ValueError")
               ELSE IF Len(args) > 4 /\ _parse_date(args[5]) = None THEN Raise("ValueError")
               ELSE /\ current_voucher' =
                           Some(Voucher(args[1], args[2], _parse_date(args[3])[1],
                                        IF Len(args) > 3 THEN _strip_quotes(args[4]) ELSE "",
                                        IF Len(args) > 4 THEN _parse_date(args[5]) ELSE None,
                                        lineno + 1))
                    /\ company' = IF current_voucher = None THEN company
                                  ELSE [company EXCEPT !.vouchers = Append(@, current_voucher[1])]
                    /\ UNCHANGED <<pc, exc>>

\* Ver entering the new voucher in the ledger at its header already
Ver_AppendsAtHeader ==
    \E l \in input.lines :
        /\ Dispatch(l, "#VER")
        /\ LET args == Args(l)
           IN  IF Len(args) < 3 THEN Raise("IndexError")
               ELSE IF _parse_date(args[3]) = None THEN Raise("ValueError")
               ELSE IF Len(args) > 4 /\ _parse_date(args[5]) = None THEN Raise("ValueError")
               ELSE LET v == Voucher(args[1], args[2], _parse_date(args[3])[1],
                                     IF Len(args) > 3 THEN _strip_quotes(args[4]) ELSE "",
                                     IF Len(args) > 4 THEN _parse_date(args[5]) ELSE None,
                                     lineno + 1)
                    IN  /\ current_voucher' = Some(v)
                        /\ company' = [company EXCEPT !.vouchers = Append(@, v)]
                        /\ UNCHANGED <<pc, exc>>

Ver ==
    \E l \in input.lines :
        /\ Dispatch(l, "#VER")
        /\ LET args == Args(l)
           IN  IF Len(args) < 3 THEN Raise("IndexError")
               ELSE IF _parse_date(args[3]) = None THEN Raise("ValueError")
               ELSE IF Len(args) > 4 /\ _parse_date(args[5]) = None THEN Raise("ValueError")
               ELSE /\ current_voucher' =
                           Some(Voucher(args[1], args[2], _parse_date(args[3])[1],
                                        IF Len(args) > 3 THEN _strip_quotes(args[4]) ELSE "",
                                        IF Len(args) > 4 THEN _parse_date(args[5]) ELSE None,
                                        lineno + 1))
                    /\ UNCHANGED <<company, pc, exc>>

\* FirstQuoted taking the last quoted token
FirstQuoted_TakesLast(rest) ==
    LET qs == SelectSeq(rest, _is_quoted)
    IN  IF qs = <<>> THEN None ELSE Some(_strip_quotes(qs[Len(qs)]))

\* the first quoted token of args[1:], unquoted; None if there is none
FirstQuoted(rest) ==
    LET qs == SelectSeq(rest, _is_quoted)
    IN  IF qs = <<>> THEN None ELSE Some(_strip_quotes(Head(qs)))

Dims_KeepsLaterNumbers(rest) ==
    LET nums  == SelectSeq([k \in 1..Len(rest) |-> k], LAMBDA k : num_re_match(rest[k]))
        keep  == SelectSeq([k \in 1..Len(rest) |-> k],
                           LAMBDA k : /\ ~(nums # <<>> /\ k = Head(nums))
                                      /\ ~_is_quoted(rest[k])
                                      /\ rest[k] \notin BracketNoise)
    IN  [j \in 1..Len(keep) |-> rest[keep[j]]]

\* the tokens of args[1:] kept as "dimensions"
Dims(rest) ==
    SelectSeq(rest, LAMBDA a : ~num_re_match(a) /\ ~_is_quoted(a) /\ a \notin BracketNoise)

\* Trans reading the account key before it tests for a pending voucher
Trans_ReadsAccountFirst ==
    \E l \in input.lines :
        /\ Dispatch(l, "#TRANS")
        /\ LET args   == Args(l)
               amount == _first_number(args, 1)
           IN  IF args = <<>> THEN Raise("IndexError")
               ELSE IF current_voucher = None \/ amount = None
               THEN UNCHANGED <<company, current_voucher, pc, exc>>
               ELSE LET dims == Dims(Tail(args))
                        t == Transaction(args[1],
                                         float(Replace(float_str(amount[1]), ",", ".")),
                                         IF dims # <<>> THEN Some(dims) ELSE None,
                                         FirstQuoted(Tail(args)))
                    IN  /\ current_voucher' =
                               Some([current_voucher[1] EXCEPT !.transactions = Append(@, t)])
                        /\ UNCHANGED <<company, pc, exc>>

\* Trans adding to the voucher committed last when none is pending
Trans_AmendsCommitted ==
    \E l \in input.lines :
        /\ Dispatch(l, "#TRANS")
        /\ LET args   == Args(l)
               amount == _first_number(args, 1)
               dims   == Dims(Tail(args))
               t      == Transaction(args[1],
                                     float(Replace(float_str(amount[1]), ",", ".")),
                                     IF dims # <<>> THEN Some(dims) ELSE None,
                                     FirstQuoted(Tail(args)))
           IN  IF current_voucher = None /\ company.vouchers = <<>>
               THEN UNCHANGED <<company, current_voucher, pc, exc>>
               ELSE IF args = <<>> THEN Raise("IndexError")
               ELSE IF amount = None THEN UNCHANGED <<company, current_voucher, pc, exc>>
               ELSE IF current_voucher = None
               THEN /\ company' = [company EXCEPT
                           !.vouchers[Len(company.vouchers)].transactions = Append(@, t)]
                    /\ UNCHANGED <<current_voucher, pc, exc>>
               ELSE /\ current_voucher' =
                           Some([current_voucher[1] EXCEPT !.transactions = Append(@, t)])
                    /\ UNCHANGED <<company, pc, exc>>

\* Trans putting the new transaction first in the pending voucher
Trans_Prepends ==
    \E l \in input.lines :
        /\ Dispatch(l, "#TRANS")
        /\ LET args   == Args(l)
               amount == _first_number(args, 1)
           IN  IF current_voucher = None
               THEN UNCHANGED <<company, current_voucher, pc, exc>>
               ELSE IF args = <<>> THEN Raise("IndexError")
               ELSE IF amount = None THEN UNCHANGED <<company, current_voucher, pc, exc>>
               ELSE LET dims == Dims(Tail(args))
                        t == Transaction(args[1],
                                         float(Replace(float_str(amount[1]), ",", ".")),
                                         IF dims # <<>> THEN Some(dims) ELSE None,
                                         FirstQuoted(Tail(args)))
                    IN  /\ current_voucher' =
                               Some([current_voucher[1] EXCEPT !.transactions = <<t>> \o @])
                        /\ UNCHANGED <<company, pc, exc>>

\* Trans entering the account it names in the account map
Trans_CreatesAccount ==
    \E l \in input.lines :
        /\ Dispatch(l, "#TRANS")
        /\ LET args   == Args(l)
               amount == _first_number(args, 1)
           IN  IF current_voucher = None
               THEN UNCHANGED <<company, current_voucher, pc, exc>>
               ELSE IF args = <<>> THEN Raise("IndexError")
               ELSE IF amount = None THEN UNCHANGED <<company, current_voucher, pc, exc>>
               ELSE LET dims == Dims(Tail(args))
                        t == Transaction(args[1],
                                         float(Replace(float_str(amount[1]), ",", ".")),
                                         IF dims # <<>> THEN Some(dims) ELSE None,
                                         FirstQuoted(Tail(args)))
                    IN  /\ current_voucher' =
                               Some([current_voucher[1] EXCEPT !.transactions = Append(@, t)])
                        /\ company' = [company EXCEPT !.accounts =
                                           SetItem(@, GetOrNew(company.accounts, args[1]))]
                        /\ UNCHANGED <<pc, exc>>

Trans ==
    \E l \in input.lines :
        /\ Dispatch(l, "#TRANS")
        /\ LET args   == Args(l)
               amount == _first_number(args, 1)
           IN  IF current_voucher = None
               THEN UNCHANGED <<company, current_voucher, pc, exc>>
               ELSE IF args = <<>> THEN Raise("IndexError")
               ELSE IF amount = None THEN UNCHANGED <<company, current_voucher, pc, exc>>
               ELSE LET dims == Dims(Tail(args))
                        t == Transaction(args[1],
                                         float(Replace(float_str(amount[1]), ",", ".")),
                                         IF dims # <<>> THEN Some(dims) ELSE None,
                                         FirstQuoted(Tail(args)))
                    IN  /\ current_voucher' =
                               Some([current_voucher[1] EXCEPT !.transactions = Append(@, t)])
                        /\ UNCHANGED <<company, pc, exc>>

\* Ignored rejecting the tags it does not know
Ignored_Raises ==
    \E l \in input.lines :
        /\ Dispatch(l, "else")
        /\ Raise("ValueError")

\* any other '#' line (#RES, #OBJEKT, #KUND, ...)
Ignored ==
    \E l \in input.lines :
        /\ Dispatch(l, "else")
        /\ UNCHANGED <<company, current_voucher, pc, exc>>

\* the input is exhausted: the hierarchy pass, then return company
Return ==
    /\ pc = "loop"
    /\ lineno >= Len(input.script)
    /\ input.fixed => lineno = Len(input.script)
    /\ pc' = "returned"
    /\ company' =
           IF infer_account_hierarchy /\ company.accounts # <<>>
           THEN [company EXCEPT !.accounts = _build_account_hierarchy(@)]
           ELSE company
    /\ UNCHANGED <<infer_account_hierarchy, input, current_voucher, raw, lineno, exc,
                   other, decoding>>

Next ==
    \/ SkipLine \/ OpenBrace \/ CloseBrace \/ NotCommand
    \/ Flagga \/ Program \/ Format \/ Gen \/ Sietyp \/ Orgnr \/ Fnamn \/ Rar
    \/ Konto \/ Sru \/ Ib \/ Ub \/ Ver \/ Trans \/ Ignored
    \/ Return

Spec == Init /\ [][Next]_vars

\* ------------------------------------------------------------------------
\* Two calls of _parse_lines on one parser, interleaved line by line.  The
\* ledger, the pending voucher and the position in the input are locals of
\* a call: other holds those of the call that is not running, and a switch
\* from one call to the other exchanges them with those of the running one.
\* The parser's one attribute, infer_account_hierarchy, is shared.
\* ------------------------------------------------------------------------

\* the locals of a call as it starts: company = Company(), current_voucher = None
NewCall(in) ==
    [input |-> in, company |-> Company, current_voucher |-> None, raw |-> "",
     lineno |-> 0, pc |-> "loop", exc |-> ""]

\* the inputs of the running call: the examples and every file of fewer
\* than MaxMixedLines lines
FirstCallInputs ==
    {[fixed |-> TRUE, lines |-> Range(e), maxlen |-> Len(e), script |-> e] : e \in Examples}
    \cup {[fixed |-> FALSE, lines |-> MixedFileLines, maxlen |-> MaxMixedLines - 1,
           script |-> <<>>]}

\* the inputs of the other call: the voucher and the accounts examples
SecondCallInputs ==
    {[fixed |-> TRUE, lines |-> Range(e), maxlen |-> Len(e), script |-> e] :
        e \in {VoucherExample, HierarchyExample}}

InitCalls ==
    /\ infer_account_hierarchy \in BOOLEAN
    /\ input \in FirstCallInputs
    /\ company = Company
    /\ current_voucher = None
    /\ raw = ""
    /\ lineno = 0
    /\ pc = "loop"
    /\ exc = ""
    /\ other \in {Some(NewCall(in)) : in \in SecondCallInputs}
    /\ decoding = None

\* Switch with the pending voucher kept on the parser, not in the call
Switch_SharesPending ==
    /\ other # None
    /\ other' = Some([input |-> input, company |-> company,
                      current_voucher |-> current_voucher, raw |-> raw,
                      lineno |-> lineno, pc |-> pc, exc |-> exc])
    /\ input' = other[1].input
    /\ company' = other[1].company
    /\ current_voucher' = current_voucher
    /\ raw' = other[1].raw
    /\ lineno' = other[1].lineno
    /\ pc' = other[1].pc
    /\ exc' = other[1].exc
    /\ UNCHANGED <<infer_account_hierarchy, decoding>>

\* the other call goes on: its locals become the running ones
Switch ==
    /\ other # None
    /\ other' = Some([input |-> input, company |-> company,
                      current_voucher |-> current_voucher, raw |-> raw,
                      lineno |-> lineno, pc |-> pc, exc |-> exc])
    /\ input' = other[1].input
    /\ company' = other[1].company
    /\ current_voucher' = other[1].current_voucher
    /\ raw' = other[1].raw
    /\ lineno' = other[1].lineno
    /\ pc' = other[1].pc
    /\ exc' = other[1].exc
    /\ UNCHANGED <<infer_account_hierarchy, decoding>>

NextCalls == Next \/ Switch

SpecCalls == InitCalls /\ [][NextCalls]_vars

\* ------------------------------------------------------------------------
\* parse_bytes: the bytes are decoded under the first candidate encoding
\* that accepts them, the text is parsed, the ledger is labelled.  Bytes
\* are numbers 0..255, a text is the sequence of its code points.
\* ------------------------------------------------------------------------

\* the bytes that the inputs are made of: 'A', 0x81, 0xA5, 0xC3 (no lead
\* byte of a three- or four-byte UTF-8 sequence, no '#', no line break)
ByteValues == {65, 129, 165, 195}

\* the names that the candidate lists are made of: DEFAULT_ENCODINGS, and a
\* name that is no codec
EncodingNames == {"utf-8", "cp865", "cp1252", "latin1", "latin1-replace"}

SeqsUpTo(S, n) == UNION {[1..k -> S] : k \in 0..n}

\* UTF-8 of bytes below 0xE0: one byte below 0x80, or a lead byte
\* 0xC2..0xDF and a continuation byte 0x80..0xBF; None is UnicodeDecodeError
RECURSIVE utf_8_decode(_, _)
utf_8_decode(data, i) ==
    IF i > Len(data) THEN Some(<<>>)
    ELSE IF data[i] < 128
    THEN LET rest == utf_8_decode(data, i + 1)
         IN  IF rest = None THEN None ELSE Some(<<data[i]>> \o rest[1])
    ELSE IF data[i] \in 194..223 /\ i < Len(data) /\ data[i + 1] \in 128..191
    THEN LET rest == utf_8_decode(data, i + 2)
         IN  IF rest = None THEN None
             ELSE Some(<<(data[i] - 192) * 64 + (data[i + 1] - 128)>> \o rest[1])
    ELSE None

\* the code points of the bytes 0x80..0xFF in code page 865
cp865_high ==
    <<
      199, 252, 233, 226, 228, 224, 229, 231, 234, 235, 232, 239, 238, 236,
      196, 197, 201, 230, 198, 244, 246, 242, 251, 249, 255, 214, 220, 248,
      163, 216, 8359, 402, 225, 237, 243, 250, 241, 209, 170, 186, 191,
      8976, 172, 189, 188, 161, 171, 164, 9617, 9618, 9619, 9474, 9508,
      9569, 9570, 9558, 9557, 9571, 9553, 9559, 9565, 9564, 9563, 9488,
      9492, 9524, 9516, 9500, 9472, 9532, 9566, 9567, 9562, 9556, 9577,
      9574, 9568, 9552, 9580, 9575, 9576, 9572, 9573, 9561, 9560, 9554,
      9555, 9579, 9578, 9496, 9484, 9608, 9604, 9612, 9616, 9600, 945, 223,
      915, 960, 931, 963, 181, 964, 934, 920, 937, 948, 8734, 966, 949,
      8745, 8801, 177, 8805, 8804, 8992, 8993, 247, 8776, 176, 8729, 183,
      8730, 8319, 178, 9632, 160
    >>

cp865_decode(data) ==
    Some([i \in 1..Len(data) |->
             IF data[i] < 128 THEN data[i] ELSE cp865_high[data[i] - 127]])

\* the code points of the bytes 0x80..0x9F in code page 1252, 0 for the
\* five bytes it leaves undefined
cp1252_c1 ==
    <<
      8364, 0, 8218, 402, 8222, 8230, 8224, 8225, 710, 8240, 352, 8249, 338,
      0, 381, 0, 0, 8216, 8217, 8220, 8221, 8226, 8211, 8212, 732, 8482,
      353, 8250, 339, 0, 382, 376
    >>

cp1252_point(b) == IF b \in 128..159 THEN cp1252_c1[b - 127] ELSE b

cp1252_decode(data) ==
    IF \E i \in 1..Len(data) : cp1252_point(data[i]) = 0 THEN None
    ELSE Some([i \in 1..Len(data) |-> cp1252_point(data[i])])

latin1_decode(data) == Some(data)

\* data.decode(enc): the text, or None for the exception (UnicodeDecodeError,
\* or LookupError for a name that is no codec); the empty byte string
\* decodes to the empty text before the codec is looked up
decode(data, enc) ==
    IF data = <<>> THEN Some(<<>>)
    ELSE CASE enc = "utf-8" -> utf_8_decode(data, 1)
           [] enc = "cp865" -> cp865_decode(data)
           [] enc = "cp1252" -> cp1252_decode(data)
           [] enc = "latin1" -> latin1_decode(data)
           [] OTHER -> None

\* parse_bytes(data, encoding_candidates) is called
InitBytes ==
    /\ infer_account_hierarchy \in BOOLEAN
    /\ decoding \in {Some([data |-> d, encodings |-> e, tried |-> 0,
                            text |-> None, enc |-> None]) :
                          d \in SeqsUpTo(ByteValues, MaxBytes),
                          e \in SeqsUpTo(EncodingNames, MaxCandidates)}
    /\ input = [fixed |-> TRUE, lines |-> {}, maxlen |-> 0, script |-> <<>>]
    /\ company = Company
    /\ current_voucher = None
    /\ raw = ""
    /\ lineno = 0
    /\ pc = "decode"
    /\ exc = ""
    /\ other = None

\* TryEncoding going through the candidates from the last to the first
TryEncoding_FromTheEnd ==
    /\ pc = "decode"
    /\ decoding[1].tried < Len(decoding[1].encodings)
    /\ LET d    == decoding[1]
           enc  == d.encodings[Len(d.encodings) - d.tried]
           text == decode(d.data, enc)
       IN  IF text # None
           THEN /\ decoding' = Some([d EXCEPT !.text = text, !.enc = Some(enc)])
                /\ pc' = "decoded"
           ELSE /\ decoding' = Some([d EXCEPT !.tried = @ + 1])
                /\ UNCHANGED pc
    /\ UNCHANGED <<infer_account_hierarchy, input, company, current_voucher, raw, lineno,
                   exc, other>>

\* for enc in encodings: one candidate is tried; the first that decodes
\* the bytes ends the loop
TryEncoding ==
    /\ pc = "decode"
    /\ decoding[1].tried < Len(decoding[1].encodings)
    /\ LET d    == decoding[1]
           enc  == d.encodings[d.tried + 1]
           text == decode(d.data, enc)
       IN  IF text # None
           THEN /\ decoding' = Some([d EXCEPT !.text = text, !.enc = Some(enc)])
                /\ pc' = "decoded"
           ELSE /\ decoding' = Some([d EXCEPT !.tried = @ + 1])
                /\ UNCHANGED pc
    /\ UNCHANGED <<infer_account_hierarchy, input, company, current_voucher, raw, lineno,
                   exc, other>>

\* Fallback labelling its text with the codec it decodes with
Fallback_LabelsLatin1 ==
    /\ pc = "decode"
    /\ decoding[1].tried = Len(decoding[1].encodings)
    /\ decoding' = Some([decoding[1] EXCEPT !.text = Some(decoding[1].data),
                                             !.enc = Some("latin1")])
    /\ pc' = "decoded"
    /\ UNCHANGED <<infer_account_hierarchy, input, company, current_voucher, raw, lineno,
                   exc, other>>

\* no candidate decoded the bytes: data.decode("latin1", errors="replace"),
\* which maps every byte to the code point of its value
Fallback ==
    /\ pc = "decode"
    /\ decoding[1].tried = Len(decoding[1].encodings)
    /\ decoding' = Some([decoding[1] EXCEPT !.text = Some(decoding[1].data),
                                             !.enc = Some("latin1-replace")])
    /\ pc' = "decoded"
    /\ UNCHANGED <<infer_account_hierarchy, input, company, current_voucher, raw, lineno,
                   exc, other>>

\* parse_text of a text that holds no '#' and no line break: its one line is
\* skipped (SkipLine or NotCommand) and the ledger returned is Company()
parse_text(text) == Company

\* company = self.parse_text(text); company.source_encoding = enc; return
LabelLedger ==
    /\ pc = "decoded"
    /\ company' = [parse_text(decoding[1].text[1]) EXCEPT
                       !.source_encoding = decoding[1].enc]
    /\ pc' = "returned"
    /\ UNCHANGED <<infer_account_hierarchy, input, current_voucher, raw, lineno, exc,
                   other, decoding>>

NextBytes == TryEncoding \/ Fallback \/ LabelLedger

SpecBytes == InitBytes /\ [][NextBytes]_vars

\* ------------------------------------------------------------------------
\* Properties
\* ------------------------------------------------------------------------

\* the step consumes one input line, which takes branch b of the loop body
ConsumesBranch(b) == lineno' = lineno + 1 /\ Branch[raw'] = b

\* the step leaves the ledger and the pending slot alone and raises nothing
LineDropped ==
    /\ company' = company
    /\ current_voucher' = current_voucher
    /\ pc' = "loop" /\ exc' = ""

\* C1: a '}' line consumed while a voucher is pending appends exactly that
\* voucher at the end of the ledger's voucher list, changes nothing else of
\* the ledger and empties the pending slot; consumed with no voucher pending
\* it changes neither the ledger nor the pending slot; no error is raised.
C1_ClosingDelimiter ==
    [][ConsumesBranch("close") =>
            /\ pc' = "loop" /\ exc' = ""
            /\ IF current_voucher # None
               THEN /\ company'.vouchers = Append(company.vouchers, current_voucher[1])
                    /\ [company' EXCEPT !.vouchers = company.vouchers] = company
                    /\ current_voucher' = None
               ELSE /\ company' = company
                    /\ current_voucher' = None]_vars

\* a '}' has just committed a voucher holding a transaction
C1_Witness ==
    /\ Branch[raw] = "close" /\ pc = "loop"
    /\ current_voucher = None
    /\ Len(company.vouchers) = 1
    /\ Len(company.vouchers[1].transactions) = 1
    /\ lineno = company.vouchers[1].oid + 2

\* C2: an accepted #VER header makes the new voucher, with no transactions,
\* the pending one and commits nothing (the voucher it supersedes is lost
\* with its transactions); the voucher list only ever grows by a '}' line
\* appending the voucher pending at that moment; the end of input commits
\* nothing.  So a header not followed by '}' before the next header or the
\* end of input contributes neither a voucher nor a transaction.
C2_UnclosedVoucherDiscarded ==
    [][/\ (ConsumesBranch("#VER") /\ pc' = "loop") =>
              /\ current_voucher' # None
              /\ current_voucher'[1].transactions = <<>>
              /\ current_voucher'[1].oid = lineno'
              /\ company' = company
       /\ company'.vouchers # company.vouchers =>
              /\ ConsumesBranch("close")
              /\ current_voucher # None
              /\ company'.vouchers = Append(company.vouchers, current_voucher[1])
       /\ pc' = "returned" => company'.vouchers = company.vouchers]_vars

\* the input ended with a voucher pending that holds a transaction, after a
\* first header was superseded, and the returned ledger holds no voucher
C2_Witness ==
    /\ pc = "returned"
    /\ current_voucher # None
    /\ current_voucher[1].oid > 1
    /\ current_voucher[1].transactions # <<>>
    /\ company.vouchers = <<>>

\* C3: a #TRANS line consumed while no voucher is pending is dropped: the
\* ledger and the pending slot are unchanged and parsing continues.
C3_OrphanTransactionDropped ==
    [][(ConsumesBranch("#TRANS") /\ current_voucher = None) => LineDropped]_vars

\* a #TRANS line was dropped after a '}' had committed the previous voucher
C3_Witness ==
    /\ Branch[raw] = "#TRANS" /\ pc = "loop"
    /\ current_voucher = None
    /\ Len(company.vouchers) = 1
    /\ lineno = 3

\* a date argument that is a calendar date written with exactly 8 digits
WellFormedDate(a) ==
    LET d  == OnlyDigits(a)
        y  == IntOfDigits(SubSeq(d, 1, 4))
        m  == IntOfDigits(SubSeq(d, 5, 6))
        dd == IntOfDigits(SubSeq(d, 7, 8))
    IN  /\ Len(d) = 8
        /\ y >= 1 /\ m \in 1..12
        /\ dd >= 1 /\ dd <= DaysInMonth(y, m)

\* line l is a #VER, #RAR or #GEN line with a date argument that is missing
\* though required, or is not a well-formed date
DateFault(l) ==
    LET args == Args(l)
    IN  \/ /\ Branch[l] = "#VER"
           /\ \/ Len(args) < 3
              \/ ~WellFormedDate(args[3])
              \/ Len(args) > 4 /\ ~WellFormedDate(args[5])
        \/ /\ Branch[l] = "#RAR"
           /\ \/ Len(args) < 3
              \/ ~WellFormedDate(args[2])
              \/ ~WellFormedDate(args[3])
        \/ /\ Branch[l] = "#GEN"
           /\ args # <<>>
           /\ ~WellFormedDate(args[1])

\* C4: only a malformed required date aborts the parse: when the parse has
\* raised, the line that raised carries a date argument that is not a
\* well-formed 8-digit date.
C4_OnlyDateErrorsAbort == pc = "raised" => DateFault(raw)

\* the date arguments that line l passes to _parse_date
DateArgs(l) ==
    LET args == Args(l)
    IN  IF Branch[l] = "#VER"
        THEN (IF Len(args) >= 3 THEN {args[3]} ELSE {})
             \cup (IF Len(args) > 4 THEN {args[5]} ELSE {})
        ELSE IF Branch[l] = "#RAR" /\ args # <<>> /\ int_ok(args[1])
        THEN (IF Len(args) >= 2 THEN {args[2]} ELSE {})
             \cup (IF Len(args) >= 3 THEN {args[3]} ELSE {})
        ELSE IF Branch[l] = "#GEN" /\ args # <<>> THEN {args[1]}
        ELSE {}

\* C5: a date argument that does not reduce to exactly 8 digits aborts the
\* parse, and the date of an accepted #VER header is its 8 digits read as
\* year, month, day.
C5_RequiredDateEightDigits ==
    /\ (\E a \in DateArgs(raw) : Len(OnlyDigits(a)) # 8) => pc = "raised"
    /\ (Branch[raw] = "#VER" /\ current_voucher # None /\ current_voucher[1].oid = lineno) =>
           LET d == OnlyDigits(Args(raw)[3])
           IN  /\ Len(d) = 8
               /\ current_voucher[1].date =
                      [year  |-> IntOfDigits(SubSeq(d, 1, 4)),
                       month |-> IntOfDigits(SubSeq(d, 5, 6)),
                       day   |-> IntOfDigits(SubSeq(d, 7, 8))]

\* C6: a line with an unrecognized '#' keyword leaves the ledger (accounts,
\* vouchers, fiscal years, company fields) and the pending voucher unchanged,
\* raises nothing, and the loop goes on to the next line.
C6_UnknownCommandIgnored ==
    [][ConsumesBranch("else") => LineDropped]_vars

\* an unrecognized command was consumed while a voucher was pending
C6_Witness ==
    /\ Branch[raw] = "else" /\ pc = "loop"
    /\ current_voucher # None

NumberPositions(args) ==
    SelectSeq([k \in 1..Len(args) |-> k], LAMBDA k : k >= 2 /\ num_re_match(args[k]))

\* the step consumes a #TRANS line with a voucher pending, or an #IB or #UB
\* line, that names an account key
ConsumesAmountLine ==
    /\ \/ ConsumesBranch("#IB")
       \/ ConsumesBranch("#UB")
       \/ ConsumesBranch("#TRANS") /\ current_voucher # None
    /\ Args(raw') # <<>>

\* C8: a #TRANS (voucher pending), #IB or #UB line in which no token after
\* the account key matches the signed-decimal pattern is dropped whole: no
\* transaction, no balance, no account, no other change, and the loop goes on.
C8_MissingNumberDropsLine ==
    [][(ConsumesAmountLine /\ NumberPositions(Args(raw')) = <<>>) => LineDropped]_vars

\* an #IB line without a number was consumed and its account key is absent
C8_Witness ==
    /\ Branch[raw] = "#IB" /\ pc = "loop"
    /\ Args(raw) # <<>>
    /\ NumberPositions(Args(raw)) = <<>>
    /\ ~HasKey(company.accounts, Args(raw)[1])
    /\ company.accounts # <<>>

\* the value of a token that has the signed-decimal form, ',' read as '.'
DecimalValue(t) == float(Replace(t, ",", "."))

Last(seq) == seq[Len(seq)]

\* C9: for #TRANS, #IB and #UB the value taken is that of the first token
\* after the account key that matches the signed-decimal pattern, whatever
\* bracket noise or other tokens precede it, ',' and '.' meaning the same;
\* #IB 1930 {} 10000,00 sets the opening balance of account 1930 to 10000.00.
C9_FirstNumberIsTheValue ==
    [][(ConsumesAmountLine /\ NumberPositions(Args(raw')) # <<>>) =>
            LET args == Args(raw')
                v    == DecimalValue(args[Head(NumberPositions(args))])
                acc  == company'.accounts[KeyIndex(company'.accounts, args[1])]
            IN  /\ pc' = "loop"
                /\ Branch[raw'] = "#IB" =>
                       /\ HasKey(company'.accounts, args[1])
                       /\ acc.opening_balance = Some(v)
                /\ Branch[raw'] = "#UB" =>
                       /\ HasKey(company'.accounts, args[1])
                       /\ acc.closing_balance = Some(v)
                /\ Branch[raw'] = "#TRANS" =>
                       /\ Len(current_voucher'[1].transactions)
                              = Len(current_voucher[1].transactions) + 1
                       /\ Last(current_voucher'[1].transactions).amount = v
                /\ Stripped[raw'] = "#IB 1930 {} 10000,00" =>
                       acc.opening_balance = Some([sig |-> 10000, exp |-> 0])]_vars

\* #IB 1930 {} 10000,00 has set the opening balance of account 1930
C9_Witness ==
    /\ Stripped[raw] = "#IB 1930 {} 10000,00" /\ pc = "loop"
    /\ HasKey(company.accounts, "1930")
    /\ company.accounts[KeyIndex(company.accounts, "1930")].opening_balance
           = Some([sig |-> 10000, exp |-> 0])

\* the tokens of args at the positions after the key that satisfy Keep
TokensWhere(args, Keep(_)) ==
    LET ks == SelectSeq([k \in 1..Len(args) |-> k], LAMBDA k : k >= 2 /\ Keep(k))
    IN  [j \in 1..Len(ks) |-> args[ks[j]]]

\* the step consumes a #TRANS line and appends its transaction
AcceptsTrans ==
    /\ ConsumesBranch("#TRANS") /\ pc' = "loop"
    /\ current_voucher # None /\ current_voucher' # None
    /\ Len(current_voucher'[1].transactions) = Len(current_voucher[1].transactions) + 1

\* the dimension tuple of a transaction, the empty tuple when it is absent
DimTuple(t) == IF t.dim = None THEN <<>> ELSE t.dim[1]

\* C10 as stated: the dimension tuple of an accepted #TRANS line holds the
\* tokens after the account key that are not the one token matched as the
\* amount, are not quoted and are not bracket noise, in order (so a later
\* numeric-looking token is kept).
C10_DimsExcludeOnlyTheAmount ==
    [][AcceptsTrans =>
            LET args == Args(raw')
            IN  DimTuple(Last(current_voucher'[1].transactions))
                    = TokensWhere(args, LAMBDA k : /\ k # Head(NumberPositions(args))
                                                   /\ ~_is_quoted(args[k])
                                                   /\ args[k] \notin BracketNoise)]_vars

\* C10 amended: the dimension tuple of an accepted #TRANS line holds the
\* tokens after the account key that do not match the signed-decimal
\* pattern, are not quoted and are not bracket noise, verbatim and in order,
\* and is absent when there is none (so a later numeric-looking token is
\* not kept).
C10_DimsExcludeEveryNumber ==
    [][AcceptsTrans =>
            LET args == Args(raw')
                dims == TokensWhere(args, LAMBDA k : /\ ~num_re_match(args[k])
                                                     /\ ~_is_quoted(args[k])
                                                     /\ args[k] \notin BracketNoise)
            IN  Last(current_voucher'[1].transactions).dim
                    = IF dims = <<>> THEN None ELSE Some(dims)]_vars

\* a #TRANS line with a second numeric token was accepted: the token is not
\* among its dimensions
C10_Witness ==
    /\ Branch[raw] = "#TRANS" /\ pc = "loop"
    /\ Len(NumberPositions(Args(raw))) = 2
    /\ current_voucher # None
    /\ current_voucher[1].transactions # <<>>
    /\ Last(current_voucher[1].transactions).dim = Some(<<"K1">>)

\* the number of rows that the vouchers before the j-th contribute
RECURSIVE RowsBefore(_, _)
RowsBefore(vouchers, j) ==
    IF j <= 1 THEN 0
    ELSE RowsBefore(vouchers, j - 1) + Len(vouchers[j - 1].transactions)

\* the rows number the transactions of each voucher 1, 2, ..., n, voucher
\* after voucher, each row holding the transaction at its index
RowsInLedgerOrder(c) ==
    LET rows == to_pandas_transactions(c)
    IN  /\ Len(rows) = RowsBefore(c.vouchers, Len(c.vouchers) + 1)
        /\ \A j \in 1..Len(c.vouchers) :
               \A i \in 1..Len(c.vouchers[j].transactions) :
                   LET row == rows[RowsBefore(c.vouchers, j) + i]
                       t   == c.vouchers[j].transactions[i]
                   IN  /\ row.tx_index = i
                       /\ row.series = c.vouchers[j].series
                       /\ row.number = c.vouchers[j].number
                       /\ row.account = t.account /\ row.amount = t.amount
                       /\ row.dim = t.dim /\ row.text = t.text

\* C11: the voucher list changes only by a '}' line appending the pending
\* voucher at its end, and the pending voucher's transactions change only by
\* an accepted #TRANS line appending its transaction at their end, so that
\* vouchers are in the order of their closing delimiters and transactions in
\* the order of their lines; the transaction projection lists the vouchers
\* in that order and numbers each voucher's transactions 1..n in that order.
\* For the example of two vouchers it gives A/1930 (1), A/3001 (2), B/1930 (1).
C11_OrderPreserved ==
    [][/\ \/ company'.vouchers = company.vouchers
          \/ /\ ConsumesBranch("close") /\ current_voucher # None
             /\ company'.vouchers = Append(company.vouchers, current_voucher[1])
       /\ (current_voucher # None /\ current_voucher' # None
              /\ current_voucher'[1].oid = current_voucher[1].oid) =>
              \/ current_voucher' = current_voucher
              \/ /\ ConsumesBranch("#TRANS")
                 /\ Len(current_voucher'[1].transactions)
                        = Len(current_voucher[1].transactions) + 1
                 /\ SubSeq(current_voucher'[1].transactions, 1,
                           Len(current_voucher[1].transactions))
                        = current_voucher[1].transactions
                 /\ Last(current_voucher'[1].transactions).account = Args(raw')[1]
       /\ RowsInLedgerOrder(company')
       /\ (pc' = "returned" /\ input.script = OrderExample) =>
              LET rows == to_pandas_transactions(company')
              IN  [k \in 1..Len(rows) |->
                      <<rows[k].series, rows[k].account, rows[k].tx_index>>]
                  = <<(<<"A", "1930", 1>>), (<<"A", "3001", 2>>), (<<"B", "1930", 1>>)>>]_vars

\* the example of two vouchers has been parsed: three rows, the third the
\* first transaction of the second voucher
C11_Witness ==
    /\ input.script = OrderExample /\ pc = "returned"
    /\ Len(to_pandas_transactions(company)) = 3
    /\ to_pandas_transactions(company)[3].tx_index = 1
    /\ to_pandas_transactions(company)[3].series = "B"

LedgerCommands ==
    {"#PROGRAM", "#FORMAT", "#GEN", "#SIETYP", "#ORGNR", "#FNAMN", "#RAR",
     "#KONTO", "#SRU", "#IB", "#UB"}

\* the first argument of line l, None if it has none
FirstArg(l) == IF Args(l) = <<>> THEN None ELSE Some(Args(l)[1])

\* what a ledger or account command on line l does to ledger c, as a
\* function of c and l alone: the ledger after it and the exception raised
LedgerEffect(c, l) ==
    LET args     == Args(l)
        b        == Branch[l]
        Ok(c2)   == [company |-> c2, exc |-> ""]
        Fail(e)  == [company |-> c, exc |-> e]
        acc      == GetOrNew(c.accounts, args[1])
        Put(a)   == Ok([c EXCEPT !.accounts = SetItem(@, a)])
        amount   == _first_number(args, 1)
    IN  CASE b = "#PROGRAM" ->
                 Ok([c EXCEPT !.program =
                        Some(Strip(Join(SelectSeq(args, LAMBDA a : a # ""))))])
          [] b = "#FORMAT" -> Ok([c EXCEPT !.format = FirstArg(l)])
          [] b = "#SIETYP" -> Ok([c EXCEPT !.sietyp = FirstArg(l)])
          [] b = "#ORGNR" -> Ok([c EXCEPT !.orgnr = FirstArg(l)])
          [] b = "#FNAMN" ->
                 Ok([c EXCEPT !.name =
                        IF args = <<>> THEN None ELSE Some(_strip_quotes(args[1]))])
          [] b = "#GEN" ->
                 IF args = <<>> THEN Ok([c EXCEPT !.generated = None])
                 ELSE IF _parse_date(args[1]) = None THEN Fail("ValueError")
                 ELSE Ok([c EXCEPT !.generated = _parse_date(args[1])])
          [] b = "#RAR" ->
                 IF args = <<>> THEN Fail("IndexError")
                 ELSE IF ~int_ok(args[1]) THEN Fail("ValueError")
                 ELSE IF Len(args) < 2 THEN Fail("IndexError")
                 ELSE IF _parse_date(args[2]) = None THEN Fail("ValueError")
                 ELSE IF Len(args) < 3 THEN Fail("IndexError")
                 ELSE IF _parse_date(args[3]) = None THEN Fail("ValueError")
                 ELSE Ok([c EXCEPT !.rars =
                             Append(@, RAR(int(args[1]), _parse_date(args[2])[1],
                                           _parse_date(args[3])[1]))])
          [] b = "#KONTO" ->
                 IF args = <<>> THEN Fail("IndexError")
                 ELSE IF Len(args) > 1 /\ _strip_quotes(args[2]) # ""
                 THEN Put([acc EXCEPT !.name = _strip_quotes(args[2])])
                 ELSE Put(acc)
          [] b = "#SRU" ->
                 IF Len(args) >= 2 THEN Put([acc EXCEPT !.sru = Some(args[2])]) ELSE Ok(c)
          [] b = "#IB" ->
                 IF args = <<>> THEN Fail("IndexError")
                 ELSE IF amount = None THEN Ok(c)
                 ELSE Put([acc EXCEPT !.opening_balance = amount])
          [] b = "#UB" ->
                 IF args = <<>> THEN Fail("IndexError")
                 ELSE IF amount = None THEN Ok(c)
                 ELSE Put([acc EXCEPT !.closing_balance = amount])

\* C12: a ledger or account command (#PROGRAM, #FORMAT, #GEN, #SIETYP,
\* #ORGNR, #FNAMN, #RAR, #KONTO, #SRU, #IB, #UB) changes the ledger in a way
\* that is a function of the ledger before it and of the line alone, the
\* same with a voucher pending and with none, and leaves the pending
\* voucher and the transactions it holds as they were.
C12_LedgerCommandsIgnorePending ==
    [][(\E c \in LedgerCommands : ConsumesBranch(c)) =>
            /\ current_voucher' = current_voucher
            /\ company' = LedgerEffect(company, raw').company
            /\ exc' = LedgerEffect(company, raw').exc
            /\ pc' = IF exc' = "" THEN "loop" ELSE "raised"]_vars

\* an account command was applied while the pending voucher held a
\* transaction, which it still holds
C12_Witness ==
    /\ Branch[raw] = "#KONTO" /\ pc = "loop"
    /\ HasKey(company.accounts, "1930")
    /\ current_voucher # None
    /\ Len(current_voucher[1].transactions) = 1
    /\ lineno = 3

AccountCommands == {"#KONTO", "#SRU", "#IB", "#UB"}

\* the account command on line l has what it needs to be applied: a key,
\* and for #SRU a code, for #IB and #UB a number
Applies(l) ==
    CASE Branch[l] = "#KONTO" -> Args(l) # <<>>
      [] Branch[l] = "#SRU" -> Len(Args(l)) >= 2
      [] Branch[l] \in {"#IB", "#UB"} ->
             Args(l) # <<>> /\ NumberPositions(Args(l)) # <<>>
      [] OTHER -> FALSE

Keys(accounts) == {accounts[j].number : j \in 1..Len(accounts)}

\* the account of key k in the map (k is one of its keys)
AccountOf(accounts, k) ==
    accounts[CHOOSE j \in 1..Len(accounts) : accounts[j].number = k]

\* account acc without the field that the command of branch b sets
WithoutOwnField(acc, b) ==
    CASE b = "#KONTO" -> [acc EXCEPT !.name = ""]
      [] b = "#SRU" -> [acc EXCEPT !.sru = None]
      [] b = "#IB" -> [acc EXCEPT !.opening_balance = None]
      [] b = "#UB" -> [acc EXCEPT !.closing_balance = None]

\* account acc has, in the field of the command on line l, the value that
\* the line gives (for #KONTO without a name: the name that old had)
HasOwnField(acc, old, l) ==
    LET args == Args(l)
        v    == Some(DecimalValue(args[Head(NumberPositions(args))]))
    IN  CASE Branch[l] = "#KONTO" ->
                 acc.name = IF Len(args) > 1 /\ _strip_quotes(args[2]) # ""
                            THEN _strip_quotes(args[2]) ELSE old.name
          [] Branch[l] = "#SRU" -> acc.sru = Some(args[2])
          [] Branch[l] = "#IB" -> acc.opening_balance = v
          [] Branch[l] = "#UB" -> acc.closing_balance = v

\* C13: while lines are read, the account map holds one account per key
\* and changes only by an applied #KONTO, #SRU, #IB or #UB line, which adds
\* its key if it is new (an account with all fields at their defaults and
\* that key as its number) and then sets only its own field (name, SRU
\* code, opening or closing balance) of that one account: its other fields
\* and all other accounts keep their values and their places.
C13_AccountsCreatedAndEnriched ==
    [][lineno' = lineno + 1 =>
          LET l   == raw'
              old == company.accounts
              new == company'.accounts
          IN  /\ Cardinality(Keys(new)) = Len(new)
              /\ IF Applies(l)
                 THEN LET k    == Args(l)[1]
                          was  == IF k \in Keys(old) THEN AccountOf(old, k) ELSE Account(k)
                      IN  /\ Keys(new) = Keys(old) \cup {k}
                          /\ Len(new) >= Len(old)
                          /\ \A j \in 1..Len(old) : old[j].number # k => new[j] = old[j]
                          /\ AccountOf(new, k).number = k
                          /\ WithoutOwnField(AccountOf(new, k), Branch[l])
                                 = WithoutOwnField(was, Branch[l])
                          /\ HasOwnField(AccountOf(new, k), was, l)
                 ELSE new = old]_vars

\* account 1930 was named by #KONTO and then given its opening balance by
\* #IB: it has both
C13_Witness ==
    /\ Branch[raw] = "#IB" /\ pc = "loop"
    /\ Len(company.accounts) = 1
    /\ company.accounts[1].number = "1930"
    /\ company.accounts[1].name = "Bank"
    /\ company.accounts[1].opening_balance = Some([sig |-> 10000, exp |-> 0])

\* the ledger has been returned by a parser that infers the hierarchy
Finalized == pc = "returned" /\ infer_account_hierarchy

\* the lengths of the candidate parent prefixes of a key, in the order tried
CandidateLengths(num) ==
    IF Len(num) >= 4 THEN <<3, 2, 1>> ELSE IF Len(num) = 3 THEN <<2, 1>> ELSE <<1>>

\* the parent that the rule gives key num among the keys of accounts
RuleParent(accounts, num) ==
    LET there == SelectSeq(CandidateLengths(num),
                           LAMBDA n : SubSeq(num, 1, n) \in Keys(accounts))
    IN  IF there = <<>> THEN None ELSE Some(SubSeq(num, 1, Head(there)))

\* the keys of the accounts whose parent is p, in the order of the map
ChildrenOf(accounts, p) ==
    LET kids == SelectSeq(accounts, LAMBDA a : a.parent = Some(p))
    IN  [j \in 1..Len(kids) |-> kids[j].number]

\* C14: in a finalized ledger every all-digit account key of two or more
\* digits has as parent the first of its candidate prefixes (3, 2, 1 digits
\* for four or more digits; 2, 1 for three; 1 for two) that is a key of the
\* map, none if there is none, and every child list holds the account's
\* children in the order the accounts entered the map; accounts 1, 19, 1930,
\* 1931 give 1930.parent = 19, 19.parent = 1, 1.parent = none and
\* 19.children = [1930, 1931].
C14_HierarchyRule ==
    Finalized =>
        LET accounts == company.accounts
        IN  /\ \A j \in 1..Len(accounts) :
                   /\ (IsAllDigits(accounts[j].number) /\ Len(accounts[j].number) >= 2) =>
                          accounts[j].parent = RuleParent(accounts, accounts[j].number)
                   /\ accounts[j].children = ChildrenOf(accounts, accounts[j].number)
            /\ input.script = HierarchyExample =>
                   /\ AccountOf(accounts, "1930").parent = Some("19")
                   /\ AccountOf(accounts, "19").parent = Some("1")
                   /\ AccountOf(accounts, "1").parent = None
                   /\ AccountOf(accounts, "19").children = <<"1930", "1931">>

\* a finalized ledger in which 1930 has parent 193 though 19 exists, and
\* was declared before both
C14_Witness ==
    /\ Finalized
    /\ Len(company.accounts) = 3
    /\ company.accounts[1].number = "1930"
    /\ company.accounts[1].parent = Some("193")
    /\ Keys(company.accounts) = {"1930", "193", "19"}
    /\ AccountOf(company.accounts, "193").parent = Some("19")

\* no key occurs twice in the sequence
NoDuplicates(seq) == \A i, j \in 1..Len(seq) : seq[i] = seq[j] => i = j

\* C15: the hierarchy pass is idempotent: for the account map of every
\* state, fresh from the line loop or already linked, running the pass on
\* the output of the pass changes no parent and no child list, and no child
\* list of the output holds a key twice.
C15_HierarchyIdempotent ==
    LET once == _build_account_hierarchy(company.accounts)
    IN  /\ _build_account_hierarchy(once) = once
        /\ \A j \in 1..Len(once) : NoDuplicates(once[j].children)
        /\ Finalized => once = company.accounts

\* a finalized ledger with a parent of two children, on which a second pass
\* would find every account linked already
C15_Witness ==
    /\ Finalized
    /\ \E j \in 1..Len(company.accounts) : Len(company.accounts[j].children) = 2
    /\ \E j \in 1..Len(company.accounts) : company.accounts[j].parent # None

\* the chain of parents from key k, followed for at most n links, ends at
\* an account without a parent
RECURSIVE ReachesRoot(_, _, _)
ReachesRoot(accounts, k, n) ==
    LET acc == AccountOf(accounts, k)
    IN  IF acc.parent = None THEN TRUE
        ELSE IF n = 0 THEN FALSE
        ELSE ReachesRoot(accounts, acc.parent[1], n - 1)

\* C16: in every returned ledger the parent of an account that has one is a
\* key of the map and a strict prefix of the account's key, so that the
\* chain of parents from any account reaches a root within as many links as
\* its key has characters; and an account is in the child list of p exactly
\* when p is its parent.
C16_Forest ==
    pc = "returned" =>
        LET accounts == company.accounts
        IN  \A j \in 1..Len(accounts) :
                LET acc == accounts[j]
                IN  /\ acc.parent # None =>
                           /\ acc.parent[1] \in Keys(accounts)
                           /\ Len(acc.parent[1]) < Len(acc.number)
                           /\ StartsWith(acc.number, acc.parent[1])
                    /\ ReachesRoot(accounts, acc.number, Len(acc.number))
                    /\ \A i \in 1..Len(accounts) :
                           InSeq(acc.number, accounts[i].children)
                               <=> acc.parent = Some(accounts[i].number)

\* a returned ledger with a chain of three links: 1930, 193, 19, 1
C16_Witness ==
    /\ pc = "returned"
    /\ Keys(company.accounts) = {"1", "19", "193", "1930"}
    /\ AccountOf(company.accounts, "1930").parent = Some("193")
    /\ AccountOf(company.accounts, "193").parent = Some("19")
    /\ AccountOf(company.accounts, "19").parent = Some("1")
    /\ AccountOf(company.accounts, "1").parent = None

\* the positions in the candidate list of the names under which the bytes
\* decode without error
Decodable(d) == {i \in 1..Len(d.encodings) : decode(d.data, d.encodings[i]) # None}

\* the least of a non-empty set of numbers
Least(S) == CHOOSE i \in S : \A j \in S : i <= j

\* C17: when some candidate decodes the bytes, the text parsed is the
\* decoding under the first candidate of the list that decodes them, and the
\* encoding label of the returned ledger is the name of that candidate.
C17_FirstDecodableCandidate ==
    (pc \in {"decoded", "returned"} /\ decoding # None /\ Decodable(decoding[1]) # {}) =>
        LET d     == decoding[1]
            first == d.encodings[Least(Decodable(d))]
        IN  /\ d.enc = Some(first)
            /\ d.text = decode(d.data, first)
            /\ pc = "returned" => company.source_encoding = Some(first)

\* the bytes C3 A5 were refused by the first candidate (no codec) and
\* decoded by the second, cp1252, though UTF-8 would have decoded them too
C17_Witness ==
    /\ pc = "returned" /\ decoding # None
    /\ decoding[1].data = <<195, 165>>
    /\ decoding[1].encodings = <<"latin1-replace", "cp1252">>
    /\ company.source_encoding = Some("cp1252")
    /\ decoding[1].text = Some(<<195, 165>>)

\* parse_bytes has returned after no candidate decoded the bytes
Exhausted ==
    /\ pc = "returned" /\ decoding # None
    /\ Decodable(decoding[1]) = {}

Running ==
    [input |-> input, company |-> company, current_voucher |-> current_voucher,
     raw |-> raw, lineno |-> lineno, pc |-> pc, exc |-> exc]

\* the account keys and the voucher series that the lines of an input name
NamedKeys(in) ==
    {Args(l)[1] : l \in {x \in in.lines : Branch[x] \in AccountCommands /\ Args(x) # <<>>}}

NamedSeries(in) ==
    {Args(l)[1] : l \in {x \in in.lines : Branch[x] = "#VER" /\ Args(x) # <<>>}}

\* call c holds nothing but what the lines of its own input name
OwnContentOnly(c) ==
    /\ Keys(c.company.accounts) \subseteq NamedKeys(c.input)
    /\ \A j \in 1..Len(c.company.vouchers) :
           c.company.vouchers[j].series \in NamedSeries(c.input)
    /\ c.current_voucher # None => c.current_voucher[1].series \in NamedSeries(c.input)

\* the ledger that call c returns for the voucher example and for the
\* accounts example is the one of that example
ExampleLedger(c) ==
    /\ c.input.script = VoucherExample =>
           /\ c.company.accounts = <<>>
           /\ Len(c.company.vouchers) = 1
           /\ Len(c.company.vouchers[1].transactions) = 1
    /\ c.input.script = HierarchyExample =>
           /\ c.company.vouchers = <<>>
           /\ Keys(c.company.accounts) = {"1", "19", "1930", "1931"}

\* C19: of two calls on one parser, interleaved in any way, each starts
\* with an empty ledger and an empty pending slot whatever the other has
\* done, each holds at every moment only accounts and vouchers that its own
\* input names, each returns for an example input the ledger of that
\* example, and two calls that return for the same input return equal ledgers.
C19_CallsIndependent ==
    other # None =>
        /\ \A c \in {Running, other[1]} :
               /\ (c.lineno = 0 /\ c.pc = "loop") =>
                      c.company = Company /\ c.current_voucher = None
               /\ OwnContentOnly(c)
               /\ c.pc = "returned" => ExampleLedger(c)
        /\ (pc = "returned" /\ other[1].pc = "returned" /\ input = other[1].input) =>
               company = other[1].company

\* both calls are half way, the one with a voucher pending, the other with
\* two accounts in its ledger
C19_Witness ==
    /\ other # None
    /\ pc = "loop" /\ other[1].pc = "loop"
    /\ lineno = 2 /\ other[1].lineno = 2
    /\ current_voucher # None /\ company.accounts = <<>>
    /\ other[1].current_voucher = None /\ Len(other[1].company.accounts) = 2

\* the ledger c without the identities of its voucher objects
Content(c) ==
    [c EXCEPT !.vouchers =
        [j \in 1..Len(c.vouchers) |->
            [series |-> c.vouchers[j].series, number |-> c.vouchers[j].number,
             date |-> c.vouchers[j].date, text |-> c.vouchers[j].text,
             reg_date |-> c.vouchers[j].reg_date,
             transactions |-> c.vouchers[j].transactions]]]

\* the ledger of the voucher example
VoucherExampleContent ==
    [Company EXCEPT !.vouchers =
        <<[series |-> "A", number |-> "1",
           date |-> [year |-> 2024, month |-> 1, day |-> 10], text |-> "Text",
           reg_date |-> Some([year |-> 2024, month |-> 1, day |-> 10]),
           transactions |-> <<[account |-> "1930", amount |-> [sig |-> 0 - 1000, exp |-> 0],
                               dim |-> None, text |-> Some("t")]>>]>>]

\* C20: a '{' line changes nothing, whatever the state it is read in: not
\* the ledger, not the pending voucher or its transactions, and it raises
\* nothing; so the lines after it are read as they would be without it.
\* The voucher example, the example without its '{' and the example with
\* '{' lines added before the header, after it and after the transaction all
\* return the same ledger: '}' commits the voucher with no '{' before it.
C20_OpenBraceIsNoOp ==
    [][/\ ConsumesBranch("open") => LineDropped
       /\ (pc' = "returned"
              /\ input.script \in {VoucherExample, NoBraceExample, ExtraBracesExample}) =>
              Content(company') = VoucherExampleContent]_vars

\* the example without '{' has been parsed: its voucher is in the ledger
C20_Witness ==
    /\ input.script = NoBraceExample /\ pc = "returned"
    /\ Len(company.vouchers) = 1
    /\ Len(company.vouchers[1].transactions) = 1

\* C21: a line that is blank or whitespace, that begins with ';;', or that
\* does not begin with '#' and is not '{' or '}' (all after trimming) changes
\* nothing, whatever the state it is read in, also with a voucher pending:
\* not the ledger, not the pending voucher, and it raises nothing; so the
\* lines after it are read as they would be without it, and the voucher
\* example with such lines added returns the ledger of the voucher example.
\* A text whose lines are separated by CRLF, by CR or by LF has the same
\* line sequence.
C21_NoiseLinesAreNoOps ==
    /\ \A e \in Examples : \A sep \in LineEndings : _normalize_lines(JoinWith(e, sep)) = e
    /\ [][/\ (ConsumesBranch("skip") \/ ConsumesBranch("text")) => LineDropped
          /\ (pc' = "returned" /\ input.script = NoiseExample) =>
                 Content(company') = VoucherExampleContent]_vars

\* the example with noise lines has been parsed: its voucher, whose header
\* came second, is in the ledger with its transaction
C21_Witness ==
    /\ input.script = NoiseExample /\ pc = "returned"
    /\ Len(company.vouchers) = 1
    /\ company.vouchers[1].oid = 2
    /\ Len(company.vouchers[1].transactions) = 1

\* sequence old is the start of sequence new, element for element
StartsSeq(new, old) ==
    /\ Len(new) >= Len(old)
    /\ \A j \in 1..Len(old) : new[j] = old[j]

\* C22: no step changes what is committed: every voucher of the ledger is
\* after the step the voucher it was, transactions included, at the place it
\* had; while a voucher stays pending every transaction it holds is after
\* the step the transaction it was, at the place it had; and the voucher that
\* '}' appends to the ledger is the pending one with the transactions it held.
C22_CommittedDataImmutable ==
    [][/\ StartsSeq(company'.vouchers, company.vouchers)
       /\ (current_voucher # None /\ current_voucher' # None
              /\ current_voucher'[1].oid = current_voucher[1].oid) =>
              /\ StartsSeq(current_voucher'[1].transactions, current_voucher[1].transactions)
              /\ [current_voucher'[1] EXCEPT !.transactions = <<>>]
                     = [current_voucher[1] EXCEPT !.transactions = <<>>]
       /\ Len(company'.vouchers) > Len(company.vouchers) =>
              /\ current_voucher # None
              /\ company'.vouchers = Append(company.vouchers, current_voucher[1])]_vars

\* a voucher A 1 without transactions is in the ledger, and a later header
\* A 1 with a transaction is pending: the committed one is as it was
C22_Witness ==
    /\ pc = "loop"
    /\ Len(company.vouchers) = 1
    /\ company.vouchers[1].transactions = <<>>
    /\ current_voucher # None
    /\ current_voucher[1].series = company.vouchers[1].series
    /\ current_voucher[1].number = company.vouchers[1].number
    /\ current_voucher[1].transactions # <<>>

\* the token came from a quoted run: it opens with a quote character
OpensWithQuote(tok) == Ch(tok, 1) \in {"\"", "'"}

\* the positions after the account key of the tokens that open with a quote
QuotedPositions(args) ==
    SelectSeq([k \in 1..Len(args) |-> k], LAMBDA k : k >= 2 /\ OpensWithQuote(args[k]))

\* C23: the note of an accepted #TRANS line is what stands between the quotes
\* of the first quoted token after the account key, and is absent when no
\* token after the account key is quoted; no quoted token of the line, the
\* first or a further one, is an element of the dimension tuple.
C23_NoteIsFirstQuotedToken ==
    [][AcceptsTrans =>
            LET args == Args(raw')
                qs   == QuotedPositions(args)
                t    == Last(current_voucher'[1].transactions)
            IN  /\ qs = <<>> => t.text = None
                /\ qs # <<>> =>
                       LET tok == args[Head(qs)]
                       IN  t.text = Some(SubSeq(tok, 2, Len(tok) - 1))
                /\ \A k \in Range(qs) : ~InSeq(args[k], DimTuple(t))]_vars

\* the transactions of the token example: no note; the note 'a b' of the
\* first quoted token although "c" follows it; an empty note; 'open end'
C23_Witness ==
    /\ input.script = TokenExample /\ pc = "returned"
    /\ Len(company.vouchers) = 1
    /\ LET ts == company.vouchers[1].transactions
       IN  /\ Len(ts) = 4
           /\ ts[1].text = None
           /\ ts[2].text = Some("a b") /\ ts[2].dim = Some(<<"K1">>)
           /\ ts[3].text = Some("")
           /\ ts[4].text = Some("open end")

\* the least position >= i of s whose character satisfies P, Len(s) + 1 if
\* there is none
FirstAt(s, i, P(_)) ==
    LET ps == {p \in i..Len(s) : P(Ch(s, p))}
    IN  IF ps = {} THEN Len(s) + 1 ELSE CHOOSE p \in ps : \A q \in ps : p <= q

IsQuote(c) == c \in {"\"", "'"}

\* the tokens of rest from position i on, as the tokenizer is described: a
\* quote character at the start of a token opens a quoted run, which goes
\* up to the next occurrence of that character (or the end of the line) and
\* is one token with its quotes; any other character opens an unquoted
\* run, which goes up to the next whitespace, and (midRunOpens) up to the
\* next quote character, which then opens a quoted run of its own
RECURSIVE TokensFrom(_, _, _)
TokensFrom(rest, i, midRunOpens) ==
    LET j == FirstAt(rest, i, LAMBDA c : ~IsSpace(c))
    IN  IF j > Len(rest) THEN <<>>
        ELSE IF IsQuote(Ch(rest, j))
        THEN LET c == FirstAt(rest, j + 1, LAMBDA x : x = Ch(rest, j))
             IN  <<IF c <= Len(rest) THEN SubSeq(rest, j, c)
                   ELSE SubSeq(rest, j, Len(rest)) \o Ch(rest, j)>>
                 \o TokensFrom(rest, c + 1, midRunOpens)
        ELSE LET e == FirstAt(rest, j, LAMBDA x : IsSpace(x) \/ (midRunOpens /\ IsQuote(x)))
             IN  <<SubSeq(rest, j, e - 1)>> \o TokensFrom(rest, e, midRunOpens)

\* the line consumed last is a command line: '#' and a keyword
CommandConsumed ==
    /\ lineno > 0
    /\ StartsWith(Stripped[raw], "#") /\ KeywordEnd(Stripped[raw], 2) > 2

\* what follows the keyword on the line consumed last
Remainder == SubSeq(Stripped[raw], KeywordEnd(Stripped[raw], 2), Len(Stripped[raw]))

\* the tokens are in order those of the description; none is empty and none
\* that is not a quoted run holds whitespace
TokensAre(midRunOpens) ==
    /\ Args(raw) = TokensFrom(Remainder, 1, midRunOpens)
    /\ \A k \in 1..Len(Args(raw)) :
          /\ Args(raw)[k] # ""
          /\ ~OpensWithQuote(Args(raw)[k]) =>
                 \A p \in 1..Len(Args(raw)[k]) : ~IsSpace(Ch(Args(raw)[k], p))

\* C24 as stated: the tokens of a command line are its quoted runs, each
\* one token with its quotes and its whitespace, and its maximal unquoted
\* runs of non-whitespace, left to right, none empty; a quote character in
\* the middle of an unquoted run ends that run and starts a quoted token.
C24_MidRunQuoteOpens == CommandConsumed => TokensAre(TRUE)

\* C24: the tokens of a command line are its quoted runs, each one token
\* with its quotes and its whitespace, and its maximal unquoted runs of
\* non-whitespace, left to right, none empty; a quote character opens a
\* quoted run only at the start of a token: in the middle of an unquoted
\* run it is a character of that run, which goes on to the next whitespace.
C24_Tokenizer == CommandConsumed => TokensAre(FALSE)

\* the transaction of #TRANS 3001 2 ab"cd ef" "": the quote inside ab"cd
\* opened nothing, the whitespace after it separated two unquoted tokens
C24_Witness ==
    /\ input.script = TokenExample /\ pc = "loop" /\ lineno = 4
    /\ Args(raw) = <<"3001", "2", "ab\"cd", "ef\"", "\"\"">>
    /\ Last(current_voucher[1].transactions).dim = Some(<<"ab\"cd", "ef\"">>)

\* C25: in a returned ledger, hierarchy inferred or not, every account whose
\* key is one digit has no parent, and every account whose key is not all
\* digits has no parent and no children.
C25_TopLevelAndNonNumeric ==
    pc = "returned" =>
        \A j \in 1..Len(company.accounts) :
            LET acc == company.accounts[j]
            IN  /\ (IsAllDigits(acc.number) /\ Len(acc.number) = 1) => acc.parent = None
                /\ ~IsAllDigits(acc.number) => (acc.parent = None /\ acc.children = <<>>)

\* a finalized ledger with the accounts 1, 19 and 19A: 19 is linked under 1,
\* which has no parent; 19A, whose prefixes 19 and 1 are keys, is linked
\* nowhere
C25_Witness ==
    /\ Finalized
    /\ {"1", "19", "19A"} \subseteq Keys(company.accounts)
    /\ AccountOf(company.accounts, "19").parent = Some("1")
    /\ AccountOf(company.accounts, "1").parent = None
    /\ AccountOf(company.accounts, "1").children = <<"19">>
    /\ AccountOf(company.accounts, "19A").parent = None
    /\ AccountOf(company.accounts, "19A").children = <<>>

\* the voucher objects of the ledger, by identity
CommittedObjects == {company.vouchers[j].oid : j \in 1..Len(company.vouchers)}

\* how many of the first n lines of script take branch b
CountIn(script, n, b) == Cardinality({i \in 1..n : Branch[script[i]] = b})

\* C26: in every state at most one voucher is pending, the pending voucher
\* is no element of the ledger's voucher list, and the list holds no voucher
\* object twice; a voucher object comes into being only as the pending one
\* at a #VER line, and the list grows only by one, only at a '}' line and
\* only by the voucher then pending, which stops being pending; so, for the
\* lines of a file read so far, the vouchers of the ledger are at most as
\* many as the #VER lines and at most as many as the '}' lines.
C26_OnePendingNoneTwice ==
    /\ [](/\ Len(current_voucher) <= 1
          /\ NoDuplicates([j \in 1..Len(company.vouchers) |-> company.vouchers[j].oid])
          /\ (current_voucher # None) => (current_voucher[1].oid \notin CommittedObjects)
          /\ (lineno <= Len(input.script)) =>
                 /\ Len(company.vouchers) <= CountIn(input.script, lineno, "#VER")
                 /\ Len(company.vouchers) <= CountIn(input.script, lineno, "close"))
    /\ [][/\ (current_voucher' # None /\ current_voucher' # current_voucher
                 /\ ~AcceptsTrans) =>
                 /\ ConsumesBranch("#VER")
                 /\ current_voucher'[1].oid = lineno'
                 /\ \A o \in CommittedObjects : o < lineno'
          /\ company'.vouchers # company.vouchers =>
                 /\ ConsumesBranch("close")
                 /\ current_voucher # None /\ current_voucher' = None
                 /\ company'.vouchers = Append(company.vouchers, current_voucher[1])]_vars

\* the order example after its second #VER line: of two #VER lines and one
\* '}' line read, one voucher is in the ledger and another one is pending
C26_Witness ==
    /\ input.script = OrderExample /\ lineno = 5 /\ pc = "loop"
    /\ CountIn(input.script, lineno, "#VER") = 2
    /\ CountIn(input.script, lineno, "close") = 1
    /\ Len(company.vouchers) = 1
    /\ current_voucher # None
    /\ Cardinality(CommittedObjects \cup {current_voucher[1].oid}) = 2

\* the voucher commands and the block delimiters
VoucherBranches == {"#VER", "#TRANS", "open", "close"}

\* C27: a step that consumes a #VER, #TRANS, '{' or '}' line leaves the
\* account map as it is, entry for entry, whether the line is applied,
\* dropped or raises; the key that an accepted #TRANS line names is a key of
\* the map after the step only if it was one before; and a step after which
\* the map has other keys than before consumes a #KONTO, #SRU, #IB or #UB line.
C27_VoucherLinesLeaveAccounts ==
    [][/\ (\E b \in VoucherBranches : ConsumesBranch(b)) =>
              company'.accounts = company.accounts
       /\ AcceptsTrans =>
              (Args(raw')[1] \in Keys(company'.accounts)
                   <=> Args(raw')[1] \in Keys(company.accounts))
       /\ Keys(company'.accounts) # Keys(company.accounts) =>
              \E b \in AccountCommands : ConsumesBranch(b)]_vars

\* a voucher is pending with a transaction on account 1930 while the map has
\* accounts, none of them 1930
C27_Witness ==
    /\ pc = "loop"
    /\ current_voucher # None
    /\ current_voucher[1].transactions # <<>>
    /\ Last(current_voucher[1].transactions).account = "1930"
    /\ company.accounts # <<>>
    /\ "1930" \notin Keys(company.accounts)

====
